---- MODULE Spec2Model ----
(***************************************************************************)
(* Model of the Payload Local API example glue code of the Next.js app:    *)
(*   - the collection GET handlers of /api/examples/posts and              *)
(*     /api/examples/products (query-string -> where clause, pagination),  *)
(*   - the server actions (toggles, bulk updates) as read-modify-write     *)
(*     processes over the external store,                                  *)
(*   - the preview and exit-draft routes and the draft-mode flag.          *)
(* The CMS store is an opaque collaborator: what find() returns is chosen  *)
(* nondeterministically; findByID/update act on a map of records.          *)
(***************************************************************************)
EXTENDS Integers, Sequences, FiniteSets, TLC

VARIABLES
    route,      \* which collection GET handler the pending request is for
    sp,         \* request.nextUrl.searchParams: parameter name -> value or NULL
    qpc,        \* "pending" before the GET handler runs, "done" after
    findArgs,   \* the arguments of the payload.find call the handler issued
    findResult, \* what the store answered to that call
    response,   \* the NextResponse the handler returned
    store,      \* the external store: collection -> id -> record
    log,        \* history: the writes the store committed, in commit order
    calls,      \* server-action invocations in progress or finished
    started,    \* number of server-action invocations started so far
    draftMode,  \* Next.js draftMode().isEnabled
    pvReq,      \* the last preview / exit-draft request
    pvResp      \* the response to it

qvars == <<route, sp, qpc, findArgs, findResult, response>>
avars == <<store, log, calls, started>>
pvars == <<draftMode, pvReq, pvResp>>
vars == <<route, sp, qpc, findArgs, findResult, response,
          store, log, calls, started, draftMode, pvReq, pvResp>>

(***************************************************************************)
(* Strings are sequences of one-character strings.  searchParams.get()     *)
(* yields null for a parameter that is not in the query string; NULL is a  *)
(* value no character sequence equals.                                     *)
(***************************************************************************)
NULL == <<"null">>

\* JavaScript truthiness of a `string | null`: null and '' are falsy.
Truthy(s) == s # NULL /\ s # <<>>

Digits == {"0", "1", "2", "3", "4", "5", "6", "7", "8", "9"}

DigitVal(c) ==
    CASE c = "0" -> 0 [] c = "1" -> 1 [] c = "2" -> 2 [] c = "3" -> 3
      [] c = "4" -> 4 [] c = "5" -> 5 [] c = "6" -> 6 [] c = "7" -> 7
      [] c = "8" -> 8 [] c = "9" -> 9

\* A JavaScript number: NaN or a value.  Values are kept in hundredths so
\* that parseFloat results with up to two decimals are exact.
NaN == [nan |-> TRUE, v |-> 0]
Num(n) == [nan |-> FALSE, v |-> 100 * n]
Hundredths(n) == [nan |-> FALSE, v |-> n]

RECURSIVE StripLeadingWS(_)
StripLeadingWS(s) ==
    IF s # <<>> /\ Head(s) = " " THEN StripLeadingWS(Tail(s)) ELSE s

\* the longest prefix of s made of decimal digits
RECURSIVE DigitPrefix(_)
DigitPrefix(s) ==
    IF s # <<>> /\ Head(s) \in Digits
    THEN <<Head(s)>> \o DigitPrefix(Tail(s))
    ELSE <<>>

RECURSIVE DigitsValue(_)
DigitsValue(ds) ==
    IF ds = <<>> THEN 0
    ELSE 10 * DigitsValue(SubSeq(ds, 1, Len(ds) - 1)) + DigitVal(ds[Len(ds)])

Drop(s, n) == SubSeq(s, n + 1, Len(s))

\* parseInt(string) with no radix: leading white space, an optional sign,
\* then the longest run of decimal digits; NaN when that run is empty.
\* (Inputs with a 0x prefix are outside the input sets used here.)
parseInt(str) ==
    LET s   == StripLeadingWS(str)
        neg == s # <<>> /\ Head(s) = "-"
        r   == IF s # <<>> /\ Head(s) \in {"-", "+"} THEN Tail(s) ELSE s
        ds  == DigitPrefix(r)
    IN  IF ds = <<>> THEN NaN
        ELSE Num(IF neg THEN 0 - DigitsValue(ds) ELSE DigitsValue(ds))

\* parseFloat(string): leading white space, an optional sign, digits, an
\* optional fraction; NaN when there is no digit on either side of the point.
\* Fraction digits beyond the second are dropped (values are in hundredths).
parseFloat(str) ==
    LET s    == StripLeadingWS(str)
        neg  == s # <<>> /\ Head(s) = "-"
        r    == IF s # <<>> /\ Head(s) \in {"-", "+"} THEN Tail(s) ELSE s
        ip   == DigitPrefix(r)
        r2   == Drop(r, Len(ip))
        fp   == IF r2 # <<>> /\ Head(r2) = "." THEN DigitPrefix(Tail(r2)) ELSE <<>>
        f2   == SubSeq(fp \o <<"0", "0">>, 1, 2)
        mag  == 100 * DigitsValue(ip) + DigitsValue(f2)
    IN  IF ip = <<>> /\ fp = <<>> THEN NaN
        ELSE Hundredths(IF neg THEN 0 - mag ELSE mag)

(***************************************************************************)
(* Where clauses.  A field predicate {field: {op: value, ...}} is a record *)
(* whose cond maps each operator present to its value; {or: [...]} holds a *)
(* sequence of field predicates.  Values are tagged so that strings,       *)
(* booleans and numbers can sit in one array.                              *)
(***************************************************************************)
StrV(s)  == [t |-> "str",  s |-> s,    b |-> FALSE, n |-> NaN]
BoolV(b) == [t |-> "bool", s |-> <<>>, b |-> b,     n |-> NaN]
NumV(n)  == [t |-> "num",  s |-> <<>>, b |-> FALSE, n |-> n]

NoCond == [op \in {} |-> StrV(<<>>)]
Cond1(op, val) == [o \in {op} |-> val]

Pred(field, cond) == [kind |-> "pred", field |-> field, cond |-> cond, or |-> <<>>]
Or(preds)         == [kind |-> "or",   field |-> "",    cond |-> NoCond, or |-> preds]

\* const x = cond ? [...arr, item] : arr   (an `if (cond) arr.push(item)`)
PushIf(cond, arr, item) == IF cond THEN Append(arr, item) ELSE arr

Get(params, name) == params[name]

\* posts/route.ts GET, lines 57-77
PostsWhereConditions(params) ==
    LET category == Get(params, "category")
        status   == Get(params, "status")
        featured == Get(params, "featured")
        author   == Get(params, "author")
        tag      == Get(params, "tag")
        w1 == PushIf(Truthy(category), <<>>,
                     Pred("category", Cond1("equals", StrV(category))))
        w2 == PushIf(Truthy(status), w1,
                     Pred("status", Cond1("equals", StrV(status))))
        w3 == PushIf(featured # NULL, w2,
                     Pred("featured", Cond1("equals", BoolV(featured = <<"t", "r", "u", "e">>))))
        w4 == PushIf(Truthy(author), w3,
                     Pred("author", Cond1("contains", StrV(author))))
        w5 == PushIf(Truthy(tag), w4,
                     Pred("tags.tag", Cond1("equals", StrV(tag))))
    IN  w5

PriceCondition_MaxOverwritesMin(minPrice, maxPrice) ==
    [op \in (IF Truthy(minPrice) \/ Truthy(maxPrice) THEN {"greater_than_equal"} ELSE {}) |->
        IF Truthy(maxPrice) THEN NumV(parseFloat(maxPrice)) ELSE NumV(parseFloat(minPrice))]

\* products route GET, lines 72-75: the priceCondition object
PriceCondition(minPrice, maxPrice) ==
    [op \in (IF Truthy(minPrice) THEN {"greater_than_equal"} ELSE {}) \cup
            (IF Truthy(maxPrice) THEN {"less_than_equal"} ELSE {}) |->
        IF op = "greater_than_equal" THEN NumV(parseFloat(minPrice))
                                     ELSE NumV(parseFloat(maxPrice))]

\* products route GET, lines 57-76
ProductsWhereConditions(params) ==
    LET category == Get(params, "category")
        inStock  == Get(params, "inStock")
        featured == Get(params, "featured")
        minPrice == Get(params, "minPrice")
        maxPrice == Get(params, "maxPrice")
        w1 == PushIf(Truthy(category), <<>>,
                     Pred("category", Cond1("equals", StrV(category))))
        w2 == PushIf(inStock # NULL, w1,
                     Pred("inStock", Cond1("equals", BoolV(inStock = <<"t", "r", "u", "e">>))))
        w3 == PushIf(featured # NULL, w2,
                     Pred("featured", Cond1("equals", BoolV(featured = <<"t", "r", "u", "e">>))))
        w4 == PushIf(Truthy(minPrice) \/ Truthy(maxPrice), w3,
                     Pred("price", PriceCondition(minPrice, maxPrice)))
    IN  w4

PostsSearchClause_TitleOnly(search) ==
    Or(<<Pred("title", Cond1("contains", StrV(search)))>>)

\* the { or: [...] } sub-clause of the search branch
PostsSearchClause(search) ==
    Or(<<Pred("title",   Cond1("contains", StrV(search))),
         Pred("excerpt", Cond1("contains", StrV(search))),
         Pred("content", Cond1("contains", StrV(search)))>>)

ProductsSearchClause(search) ==
    Or(<<Pred("name",        Cond1("contains", StrV(search))),
         Pred("description", Cond1("contains", StrV(search)))>>)

\* const page = parseInt(searchParams.get('page') || '1')
PageArg(params)  == parseInt(IF Truthy(Get(params, "page"))  THEN Get(params, "page")  ELSE <<"1">>)
LimitArg(params) == parseInt(IF Truthy(Get(params, "limit")) THEN Get(params, "limit") ELSE <<"1", "0">>)

NoFind == [called |-> FALSE, collection |-> "", hasWhere |-> FALSE, where |-> <<>>,
           page |-> NaN, limit |-> NaN, sort |-> ""]

\* findWithPagination(collection, page, limit): find({collection, page, limit})
findWithPagination(collection, page, limit) ==
    [called |-> TRUE, collection |-> collection, hasWhere |-> FALSE, where |-> <<>>,
     page |-> page, limit |-> limit, sort |-> ""]

\* payload.find({collection, where: {and}, page, limit, sort})
FindAnd(collection, andArr, page, limit, sort) ==
    [called |-> TRUE, collection |-> collection, hasWhere |-> TRUE, where |-> andArr,
     page |-> page, limit |-> limit, sort |-> sort]

(***************************************************************************)
(* What the store may answer to a find: a page of results whose            *)
(* page/limit/totalPages/totalDocs are the store's own, or a thrown error. *)
(***************************************************************************)
FindResults ==
    { [page |-> 1, limit |-> 10, totalPages |-> 1, totalDocs |-> 3],
      [page |-> 2, limit |-> 5,  totalPages |-> 4, totalDocs |-> 17] }

ErrorMessages == {"", "connection refused"}

NoResult == [page |-> 0, limit |-> 0, totalPages |-> 0, totalDocs |-> 0]

FindOutcomes ==
    { [threw |-> FALSE, message |-> "", result |-> r] : r \in FindResults } \cup
    { [threw |-> TRUE, message |-> m, result |-> NoResult] : m \in ErrorMessages }

NoResponse == [status |-> 0, success |-> FALSE, method |-> "", hasPagination |-> FALSE,
               pagination |-> NoResult, error |-> ""]

PaginationOf_FromRequest(result, args) ==
    [page |-> IF args.page.nan THEN 1 ELSE args.page.v \div 100,
     limit |-> IF args.limit.nan THEN 10 ELSE args.limit.v \div 100,
     totalPages |-> result.totalPages, totalDocs |-> result.totalDocs]

\* the pagination object of the three success branches
PaginationOf(result, args) ==
    [page |-> result.page, limit |-> result.limit,
     totalPages |-> result.totalPages, totalDocs |-> result.totalDocs]

\* NextResponse.json({success: true, method, data, pagination, ...})
SuccessResponse(method, result, args) ==
    [status |-> 200, success |-> TRUE, method |-> method, hasPagination |-> TRUE,
     pagination |-> PaginationOf(result, args), error |-> ""]

ErrorResponse_GenericText(message, fallback) ==
    [status |-> 500, success |-> FALSE, method |-> "", hasPagination |-> FALSE,
     pagination |-> NoResult, error |-> fallback]

\* the catch block: error.message || fallback, status 500
ErrorResponse(message, fallback) ==
    [status |-> 500, success |-> FALSE, method |-> "", hasPagination |-> FALSE,
     pagination |-> NoResult,
     error |-> IF message # "" THEN message ELSE fallback]

\* the find call the posts GET handler issues for these parameters
PostsFindCall(params) ==
    LET page   == PageArg(params)
        limit  == LimitArg(params)
        search == Get(params, "search")
        simple == \A k \in {"category", "status", "featured", "author", "tag", "search"} :
                      ~Truthy(Get(params, k))
        conds  == PostsWhereConditions(params)
    IN  IF simple THEN findWithPagination("posts", page, limit)
        ELSE IF Truthy(search)
             THEN FindAnd("posts", Append(conds, PostsSearchClause(search)),
                          page, limit, "-publishedDate")
             ELSE FindAnd("posts", conds, page, limit, "-publishedDate")

ProductsFindCall(params) ==
    LET page   == PageArg(params)
        limit  == LimitArg(params)
        search == Get(params, "search")
        simple == \A k \in {"category", "inStock", "featured", "minPrice", "maxPrice", "search"} :
                      ~Truthy(Get(params, k))
        conds  == ProductsWhereConditions(params)
    IN  IF simple THEN findWithPagination("products", page, limit)
        ELSE IF Truthy(search)
             THEN FindAnd("products", Append(conds, ProductsSearchClause(search)),
                          page, limit, "-createdAt")
             ELSE FindAnd("products", conds, page, limit, "-createdAt")

MethodOf(call, params) ==
    IF ~call.hasWhere THEN "Simple Pagination"
    ELSE IF Truthy(Get(params, "search")) THEN "Complex Query with Search"
    ELSE "Complex AND Query"

\* GET /api/examples/posts
GETPosts ==
    /\ qpc = "pending" /\ route = "posts"
    /\ \E out \in FindOutcomes :
         LET call == PostsFindCall(sp) IN
         /\ findArgs' = call
         /\ findResult' = out
         /\ response' = IF out.threw
                        THEN ErrorResponse(out.message, "Failed to fetch posts")
                        ELSE SuccessResponse(MethodOf(call, sp), out.result, call)
    /\ qpc' = "done"
    /\ UNCHANGED <<route, sp>>
    /\ UNCHANGED avars /\ UNCHANGED pvars

\* GET /api/examples/products
GETProducts ==
    /\ qpc = "pending" /\ route = "products"
    /\ \E out \in FindOutcomes :
         LET call == ProductsFindCall(sp) IN
         /\ findArgs' = call
         /\ findResult' = out
         /\ response' = IF out.threw
                        THEN ErrorResponse(out.message, "Failed to fetch products")
                        ELSE SuccessResponse(MethodOf(call, sp), out.result, call)
    /\ qpc' = "done"
    /\ UNCHANGED <<route, sp>>
    /\ UNCHANGED avars /\ UNCHANGED pvars

(***************************************************************************)
(* The query strings the GET handlers are exercised with: every parameter  *)
(* absent (NULL), present with an empty value (?category=), or present     *)
(* with a value; page, limit and the price bounds also non-numeric.        *)
(***************************************************************************)
TrueStr  == <<"t", "r", "u", "e">>
FalseStr == <<"f", "a", "l", "s", "e">>

PostsParams ==
    [ page     : {NULL, <<>>, <<"2">>, <<"a", "b", "c">>, <<"7", "x">>, <<"-", "1">>},
      limit    : {NULL, <<"5">>, <<"x">>},
      category : {NULL, <<>>, <<"t", "e", "c", "h">>},
      status   : {NULL, <<>>, <<"d", "r", "a", "f", "t">>},
      featured : {NULL, <<>>, TrueStr, FalseStr},
      author   : {NULL, <<"J", "o">>},
      tag      : {NULL, <<"j", "s">>},
      search   : {NULL, <<>>, <<"n", "e", "x", "t">>} ]

ProductsParams ==
    [ page     : {NULL, <<"2">>, <<"a", "b", "c">>},
      limit    : {NULL, <<"x">>},
      category : {NULL, <<"t", "o", "y", "s">>},
      inStock  : {NULL, <<>>, TrueStr},
      featured : {NULL, FalseStr},
      minPrice : {NULL, <<>>, <<"0">>, <<"2", ".", "5">>, <<"a", "b", "c">>},
      maxPrice : {NULL, <<>>, <<"1", "0">>},
      search   : {NULL, <<>>, <<"l", "a", "p">>} ]

\* the preview routes before any request
NoToken == [kind |-> "none", key |-> "", expired |-> FALSE, payload |-> ""]

NoPvResponse == [status |-> 0, body |-> "", location |-> NULL, logged |-> "",
                 before |-> FALSE, asked |-> "none"]

QNext == GETPosts \/ GETProducts

NoFindOutcome == [threw |-> FALSE, message |-> "", result |-> NoResult]
NoPvRequest == [route |-> "none", path |-> NULL, collection |-> NULL, slug |-> NULL,
                token |-> NoToken]

\* a collection GET request has arrived; no server action, no preview request
InitQuery ==
    /\ route \in {"posts", "products"}
    /\ sp \in (IF route = "posts" THEN PostsParams ELSE ProductsParams)
    /\ qpc = "pending"
    /\ findArgs = NoFind
    /\ findResult = NoFindOutcome
    /\ response = NoResponse
    /\ store = <<>>
    /\ log = <<>>
    /\ calls = <<>>
    /\ started = 0
    /\ draftMode = FALSE
    /\ pvReq = NoPvRequest
    /\ pvResp = NoPvResponse

SpecQuery == InitQuery /\ [][QNext]_vars

(***************************************************************************)
(* Properties of the collection GET handlers (checked under SpecQuery).    *)
(***************************************************************************)
Where == findArgs.where
PredIdx == {i \in 1..Len(Where) : Where[i].kind = "pred"}
OrIdx   == {i \in 1..Len(Where) : Where[i].kind = "or"}
PredFields == {Where[i].field : i \in PredIdx}

\* the query parameters that feed each filter field
FilterParams(field) ==
    IF field = "price" THEN {"minPrice", "maxPrice"}
    ELSE IF field = "tags.tag" THEN {"tag"}
    ELSE {field}

FilterFields ==
    IF route = "posts" THEN {"category", "status", "featured", "author", "tags.tag"}
    ELSE {"category", "inStock", "featured", "price"}

\* fields with a parameter in the query string / with a non-empty parameter
FieldsInQuery  == {f \in FilterFields : \E k \in FilterParams(f) : sp[k] # NULL}
FieldsNonEmpty == {f \in FilterFields : \E k \in FilterParams(f) : Truthy(sp[k])}

\* C1 (as stated): the where clause handed to the store holds exactly one
\* predicate for each filter parameter that is present and none for an absent
\* one -- whether "present" is read as "in the query string" or as "has a
\* non-empty value".
C1_PredicatePerPresentParam ==
    qpc = "done" =>
        /\ Cardinality(PredIdx) = Cardinality(PredFields)
        /\ PredFields = FieldsInQuery \/ PredFields = FieldsNonEmpty

SearchFields ==
    IF route = "posts" THEN {"title", "excerpt", "content"} ELSE {"name", "description"}

IsSearchClause(c) ==
    /\ c.kind = "or"
    /\ Len(c.or) = Cardinality(SearchFields)
    /\ {c.or[j].field : j \in 1..Len(c.or)} = SearchFields
    /\ \A j \in 1..Len(c.or) :
          /\ c.or[j].kind = "pred"
          /\ DOMAIN c.or[j].cond = {"contains"}
          /\ c.or[j].cond["contains"] = StrV(sp.search)

\* C2: with a search term the filter is the AND of the active field predicates
\* plus exactly one OR sub-clause of `contains search` predicates over the
\* collection's text fields; without a search term the filter holds no OR.
C2_SearchAddsOneOrClause ==
    qpc = "done" =>
        IF Truthy(sp.search)
        THEN /\ findArgs.hasWhere
             /\ Cardinality(OrIdx) = 1
             /\ \A i \in OrIdx : IsSearchClause(Where[i])
             /\ PredIdx \cup OrIdx = 1..Len(Where)
             /\ FieldsNonEmpty \subseteq PredFields
             /\ PredFields \subseteq FieldsInQuery
        ELSE OrIdx = {}

C2_Witness ==
    /\ qpc = "done" /\ route = "posts"
    /\ Truthy(sp.search) /\ Truthy(sp.category) /\ Truthy(sp.status)
    /\ Len(Where) = 3 /\ Where[3].kind = "or"

\* the numbers the price bounds of the input set denote, in hundredths
ExpectedPrice(s) ==
    CASE s = <<"0">> -> Hundredths(0)
      [] s = <<"2", ".", "5">> -> Hundredths(250)
      [] s = <<"1", "0">> -> Hundredths(1000)
      [] OTHER -> NaN

PriceIdx == {i \in PredIdx : Where[i].field = "price"}

\* C3: minPrice and maxPrice land in one inclusive range predicate on price:
\* greater_than_equal for a given minPrice, less_than_equal for a given
\* maxPrice, no bound for a bound that is not given.
C3_PriceRangePredicate ==
    (qpc = "done" /\ route = "products") =>
        IF Truthy(sp.minPrice) \/ Truthy(sp.maxPrice)
        THEN /\ Cardinality(PriceIdx) = 1
             /\ \A i \in PriceIdx :
                  /\ ("greater_than_equal" \in DOMAIN Where[i].cond) <=> Truthy(sp.minPrice)
                  /\ ("less_than_equal" \in DOMAIN Where[i].cond) <=> Truthy(sp.maxPrice)
                  /\ DOMAIN Where[i].cond \subseteq {"greater_than_equal", "less_than_equal"}
                  /\ Truthy(sp.minPrice) =>
                        Where[i].cond["greater_than_equal"] = NumV(ExpectedPrice(sp.minPrice))
                  /\ Truthy(sp.maxPrice) =>
                        Where[i].cond["less_than_equal"] = NumV(ExpectedPrice(sp.maxPrice))
        ELSE PriceIdx = {}

C3_Witness ==
    /\ qpc = "done" /\ route = "products"
    /\ sp.minPrice = <<"2", ".", "5">> /\ sp.maxPrice = <<"1", "0">>
    /\ \E i \in PriceIdx :
          /\ Where[i].cond["greater_than_equal"].n.v = 250
          /\ Where[i].cond["less_than_equal"].n.v = 1000

\* a page/limit parameter that is absent or does not parse as an integer
FailsIntParse(s) == s = NULL \/ parseInt(s).nan

\* C4 (as stated): a page or limit that is absent or fails integer parsing
\* makes the handler query the store with page 1 / limit 10, and the request
\* is not reported as an error.
C4_PaginationFallsBackToDefaults ==
    qpc = "done" =>
        /\ FailsIntParse(sp.page) => findArgs.page = Num(1)
        /\ FailsIntParse(sp.limit) => findArgs.limit = Num(10)
        /\ ~findResult.threw => response.success

\* C5: in every successful branch the response's pagination object carries
\* the page, limit, totalPages and totalDocs the store returned.
C5_PaginationIsStoreResult ==
    (qpc = "done" /\ response.success) =>
        /\ response.hasPagination
        /\ response.pagination.page = findResult.result.page
        /\ response.pagination.limit = findResult.result.limit
        /\ response.pagination.totalPages = findResult.result.totalPages
        /\ response.pagination.totalDocs = findResult.result.totalDocs

C5_Witness ==
    /\ qpc = "done" /\ response.success
    /\ response.method = "Complex Query with Search"
    /\ findArgs.page = Num(2) /\ findArgs.limit = Num(10)
    /\ response.pagination.page = 1 /\ response.pagination.totalDocs = 3

(***************************************************************************)
(* Server actions over the external store.                                 *)
(* Each `await payload.<op>(...)` is one atomic step of the store; an      *)
(* action that awaits twice (findByID, then update) is two steps, and      *)
(* other invocations may run between them.                                 *)
(***************************************************************************)
MaxCalls == 2   \* server-action invocations per run

PostIds    == {"1", "2"}    \* documents in the posts collection at the start
ProductIds == {"1"}
MissingId  == "9"           \* an id no document has

CollectionOf(op) ==
    IF op \in {"togglePostStatus", "togglePostFeatured", "bulkUpdatePosts", "deletePost",
               "createPost", "POST /api/examples/posts",
               "updatePost", "updatePostReadTime",
               "GET /api/examples/posts/[id]", "PATCH /api/examples/posts/[id]",
               "DELETE /api/examples/posts/[id]"}
    THEN "posts" ELSE "products"

ToggleOps == {"togglePostStatus", "togglePostFeatured",
              "toggleProductStock", "toggleProductFeatured"}
BulkOps   == {"bulkUpdatePosts", "bulkUpdateProducts"}
DeleteOps == {"deletePost", "deleteProduct"}

\* the field each toggle flips
ToggleField(op) ==
    CASE op = "togglePostStatus"      -> "status"
      [] op = "togglePostFeatured"    -> "featured"
      [] op = "toggleProductStock"    -> "inStock"
      [] op = "toggleProductFeatured" -> "featured"

RevalidatedPaths == {"/examples/local-api", "/examples/local-api/server-actions"}

\* `new Date()`: a clock that advances with every commit of the store
Now == Len(log) + 1

NoDoc == [none |-> TRUE]
NoData == [f \in {} |-> FALSE]

\* payload.update merges the given fields into the stored document
Merge(doc, data) == [f \in DOMAIN doc |-> IF f \in DOMAIN data THEN data[f] ELSE doc[f]]

\* findByID / update / delete throw NotFound for an id without a document
Exists(coll, id) == id \in DOMAIN store[coll]

\* const newStatus = post.status === 'published' ? 'draft' : 'published'
NewStatus_AlwaysPublished(status) == "published"
NewStatus(status) == IF status = "published" THEN "draft" ELSE "published"

\* { featured: !post.featured } / { inStock: !product.inStock }
Negated_Unchanged(doc, field) == [f \in {field} |-> doc[field]]
Negated(doc, field) == [f \in {field} |-> ~doc[field]]

ToggleData_WritesBackDocument(op, doc, now) ==
    IF op = "togglePostStatus"
    THEN LET newStatus == NewStatus(doc.status) IN
         [f \in DOMAIN doc |->
            IF f = "status" THEN newStatus
            ELSE IF f = "publishedDate" /\ newStatus = "published" /\ doc.publishedDate = 0
                 THEN now ELSE doc[f]]
    ELSE [f \in DOMAIN doc |-> IF f = ToggleField(op) THEN ~doc[f] ELSE doc[f]]

ToggleData_StampsEveryPublish(op, doc, now) ==
    IF op = "togglePostStatus"
    THEN LET newStatus == NewStatus(doc.status) IN
         IF newStatus = "published"
         THEN [status |-> newStatus, publishedDate |-> now]
         ELSE [status |-> newStatus]
    ELSE Negated(doc, ToggleField(op))

\* the data object each toggle hands to payload.update, from the document read
ToggleData(op, doc, now) ==
    IF op = "togglePostStatus"
    THEN LET newStatus == NewStatus(doc.status) IN
         IF newStatus = "published" /\ doc.publishedDate = 0
         THEN [status |-> newStatus, publishedDate |-> now]
         ELSE [status |-> newStatus]
    ELSE Negated(doc, ToggleField(op))

FallbackError(op) ==
    CASE op = "togglePostStatus"      -> "Failed to toggle post status"
      [] op = "togglePostFeatured"    -> "Failed to toggle post featured status"
      [] op = "toggleProductStock"    -> "Failed to toggle product stock"
      [] op = "toggleProductFeatured" -> "Failed to toggle product featured status"
      [] op = "bulkUpdatePosts"       -> "Failed to bulk update posts"
      [] op = "bulkUpdateProducts"    -> "Failed to bulk update products"
      [] op = "deletePost"            -> "Failed to delete post"
      [] op = "deleteProduct"         -> "Failed to delete product"
      [] op = "createPost"            -> "Failed to create post"
      [] op = "createProduct"         -> "Failed to create product"
      [] op = "POST /api/examples/posts"    -> "Failed to create post"
      [] op = "POST /api/examples/products" -> "Failed to create product"
      [] op = "updatePost"            -> "Failed to update post"
      [] op = "updateProduct"         -> "Failed to update product"
      [] op = "updatePostReadTime"    -> "Failed to update read time"
      [] op = "updateProductInventory" -> "Failed to update inventory"
      [] op = "GET /api/examples/posts/[id]"       -> "Failed to fetch post"
      [] op = "PATCH /api/examples/posts/[id]"     -> "Failed to update post"
      [] op = "DELETE /api/examples/posts/[id]"    -> "Failed to delete post"
      [] op = "GET /api/examples/products/[id]"    -> "Failed to fetch product"
      [] op = "PATCH /api/examples/products/[id]"  -> "Failed to update product"
      [] op = "DELETE /api/examples/products/[id]" -> "Failed to delete product"

NoOutcome == [returned |-> FALSE, success |-> FALSE, error |-> "", count |-> 0,
              thrown |-> ""]    \* thrown: the message of the error that was caught

\* return { success: true, ... } after revalidatePath x 2
Succeeded(count) ==
    [returned |-> TRUE, success |-> TRUE, error |-> "", count |-> count, thrown |-> ""]

Failed_ReportsSuccess(op, message) ==
    [returned |-> TRUE, success |-> TRUE, error |-> "", count |-> 0, thrown |-> message]

\* the catch block: { success: false, error: error.message || fallback }
Failed(op, message) ==
    [returned |-> TRUE, success |-> FALSE,
     error |-> IF message # "" THEN message ELSE FallbackError(op), count |-> 0,
     thrown |-> message]

NewCall(op, id, ids, updates, pc) ==
    [op |-> op, id |-> id, ids |-> ids, updates |-> updates, pc |-> pc,
     doc |-> NoDoc,      \* the document findByID returned
     seen |-> 0,         \* commits in the store when it was read
     wrote |-> <<>>,     \* log positions of the writes this invocation committed
     ops |-> <<>>,       \* the store calls it awaited so far: "ok" or "threw"
     i |-> 1,            \* bulk update: position in ids of the next write
     outcome |-> NoOutcome,
     revalidated |-> {}]

\* a committed write, as the store's history records it
Commit(c, kind, coll, id, data, before, after) ==
    [call |-> c, kind |-> kind, coll |-> coll, id |-> id, data |-> data,
     before |-> before, after |-> after]

\* a client invokes one of the toggle actions
InvokeToggle ==
    /\ started < MaxCalls
    /\ \E op \in ToggleOps, id \in {"1", MissingId} :
         calls' = Append(calls, NewCall(op, id, <<>>, NoData, "read"))
    /\ started' = started + 1
    /\ UNCHANGED <<store, log>>
    /\ UNCHANGED qvars /\ UNCHANGED pvars

\* toggle*, first await: const doc = await payload.findByID({collection, id})
ToggleRead(c) ==
    /\ calls[c].op \in ToggleOps /\ calls[c].pc = "read"
    /\ LET op == calls[c].op
           coll == CollectionOf(op)
           id == calls[c].id
       IN  IF Exists(coll, id)
           THEN calls' = [calls EXCEPT ![c].doc = store[coll][id],
                                       ![c].seen = Len(log),
                                       ![c].ops = Append(@, "ok"),
                                       ![c].pc = "write"]
           ELSE calls' = [calls EXCEPT ![c].outcome = Failed(op, "Not Found"),
                                       ![c].ops = Append(@, "threw"),
                                       ![c].pc = "done"]
    /\ UNCHANGED <<store, log, started>>
    /\ UNCHANGED qvars /\ UNCHANGED pvars

\* toggle*, second await: payload.update({collection, id, data}), then
\* revalidatePath twice and return success; the catch block on a throw
ToggleWrite(c) ==
    /\ calls[c].op \in ToggleOps /\ calls[c].pc = "write"
    /\ LET op == calls[c].op
           coll == CollectionOf(op)
           id == calls[c].id
           data == ToggleData(op, calls[c].doc, Now)
       IN  IF Exists(coll, id)
           THEN LET after == Merge(store[coll][id], data) IN
                /\ store' = [store EXCEPT ![coll][id] = after]
                /\ log' = Append(log, Commit(c, "update", coll, id, data, store[coll][id], after))
                /\ calls' = [calls EXCEPT ![c].wrote = <<Len(log) + 1>>,
                                          ![c].ops = Append(@, "ok"),
                                          ![c].outcome = Succeeded(1),
                                          ![c].revalidated = RevalidatedPaths,
                                          ![c].pc = "done"]
           ELSE /\ calls' = [calls EXCEPT ![c].outcome = Failed(op, "Not Found"),
                                          ![c].ops = Append(@, "threw"),
                                          ![c].pc = "done"]
                /\ UNCHANGED <<store, log>>
    /\ UNCHANGED started
    /\ UNCHANGED qvars /\ UNCHANGED pvars

\* the id lists and update objects the bulk actions are invoked with
BulkIdLists(op) ==
    IF op = "bulkUpdatePosts"
    THEN {<<>>, <<"1", "2">>, <<"2", "1">>, <<"1", MissingId, "2">>, <<MissingId, "1">>}
    ELSE {<<"1">>, <<"1", MissingId>>}

BulkUpdates(op) ==
    IF op = "bulkUpdatePosts"
    THEN {[featured |-> TRUE], [status |-> "published", category |-> "news"]}
    ELSE {[inStock |-> FALSE, category |-> "games"]}

\* a client invokes bulkUpdatePosts / bulkUpdateProducts
InvokeBulk ==
    /\ started < MaxCalls
    /\ \E op \in BulkOps :
         \E ids \in BulkIdLists(op), updates \in BulkUpdates(op) :
            calls' = Append(calls, NewCall(op, "", ids, updates, "loop"))
    /\ started' = started + 1
    /\ UNCHANGED <<store, log>>
    /\ UNCHANGED qvars /\ UNCHANGED pvars

\* what one turn of `for (const id of ids) { await payload.update(...) }`
\* leaves in the invocation: the next turn, or -- after the last id -- the
\* revalidatePath calls and the success return
AfterBulkWrite_CountBeforePush(call, pos) ==
    LET wrote == Append(call.wrote, pos) IN
    IF call.i = Len(call.ids)
    THEN [call EXCEPT !.wrote = wrote, !.i = call.i + 1, !.ops = Append(@, "ok"),
                      !.outcome = Succeeded(Len(call.wrote)),
                      !.revalidated = RevalidatedPaths, !.pc = "done"]
    ELSE [call EXCEPT !.wrote = wrote, !.i = call.i + 1, !.ops = Append(@, "ok")]

AfterBulkWrite_RevalidateEachWrite(call, pos) ==
    LET wrote == Append(call.wrote, pos) IN
    IF call.i = Len(call.ids)
    THEN [call EXCEPT !.wrote = wrote, !.i = call.i + 1, !.ops = Append(@, "ok"),
                      !.outcome = Succeeded(Len(wrote)),
                      !.revalidated = RevalidatedPaths, !.pc = "done"]
    ELSE [call EXCEPT !.wrote = wrote, !.i = call.i + 1, !.ops = Append(@, "ok"),
                      !.revalidated = RevalidatedPaths]

AfterBulkWrite(call, pos) ==
    LET wrote == Append(call.wrote, pos) IN
    IF call.i = Len(call.ids)
    THEN [call EXCEPT !.wrote = wrote, !.i = call.i + 1, !.ops = Append(@, "ok"),
                      !.outcome = Succeeded(Len(wrote)),
                      !.revalidated = RevalidatedPaths, !.pc = "done"]
    ELSE [call EXCEPT !.wrote = wrote, !.i = call.i + 1, !.ops = Append(@, "ok")]

\* bulkUpdate*: one await of the loop (or, for an empty list, the return)
BulkStep(c) ==
    /\ calls[c].op \in BulkOps /\ calls[c].pc = "loop"
    /\ LET op == calls[c].op
           coll == CollectionOf(op)
           ids == calls[c].ids
       IN  IF ids = <<>>
           THEN /\ calls' = [calls EXCEPT ![c].outcome = Succeeded(0),
                                          ![c].revalidated = RevalidatedPaths,
                                          ![c].pc = "done"]
                /\ UNCHANGED <<store, log>>
           ELSE LET id == ids[calls[c].i] IN
                IF Exists(coll, id)
                THEN LET after == Merge(store[coll][id], calls[c].updates) IN
                     /\ store' = [store EXCEPT ![coll][id] = after]
                     /\ log' = Append(log, Commit(c, "update", coll, id, calls[c].updates,
                                                  store[coll][id], after))
                     /\ calls' = [calls EXCEPT ![c] = AfterBulkWrite(calls[c], Len(log) + 1)]
                ELSE /\ calls' = [calls EXCEPT ![c].outcome = Failed(op, "Not Found"),
                                               ![c].ops = Append(@, "threw"),
                                               ![c].pc = "done"]
                     /\ UNCHANGED <<store, log>>
    /\ UNCHANGED started
    /\ UNCHANGED qvars /\ UNCHANGED pvars

\* a client invokes deletePost / deleteProduct
InvokeDelete ==
    /\ started < MaxCalls
    /\ \E op \in DeleteOps :
         calls' = Append(calls, NewCall(op, "1", <<>>, NoData, "delete"))
    /\ started' = started + 1
    /\ UNCHANGED <<store, log>>
    /\ UNCHANGED qvars /\ UNCHANGED pvars

\* delete*: await payload.delete({collection, id}), revalidate, return
DeleteStep(c) ==
    /\ calls[c].op \in DeleteOps /\ calls[c].pc = "delete"
    /\ LET op == calls[c].op
           coll == CollectionOf(op)
           id == calls[c].id
       IN  IF Exists(coll, id)
           THEN /\ store' = [store EXCEPT ![coll] =
                                [k \in DOMAIN store[coll] \ {id} |-> store[coll][k]]]
                /\ log' = Append(log, Commit(c, "delete", coll, id, NoData, store[coll][id], NoDoc))
                /\ calls' = [calls EXCEPT ![c].wrote = <<Len(log) + 1>>,
                                          ![c].ops = Append(@, "ok"),
                                          ![c].outcome = Succeeded(1),
                                          ![c].revalidated = RevalidatedPaths,
                                          ![c].pc = "done"]
           ELSE /\ calls' = [calls EXCEPT ![c].outcome = Failed(op, "Not Found"),
                                          ![c].ops = Append(@, "threw"),
                                          ![c].pc = "done"]
                /\ UNCHANGED <<store, log>>
    /\ UNCHANGED started
    /\ UNCHANGED qvars /\ UNCHANGED pvars

CreateActionOps == {"createPost", "createProduct"}
CreateRouteOps  == {"POST /api/examples/posts", "POST /api/examples/products"}

\* a property of type `number | undefined`
NoPrice  == [given |-> FALSE, v |-> 0]
Price(n) == [given |-> TRUE, v |-> n]

\* JavaScript `!x` for a `number | undefined`: undefined and 0 are falsy
NotNumber(x) == ~x.given \/ x.v = 0

RequiredMissing_SkipsCategory(op, data) ==
    IF CollectionOf(op) = "posts"
    THEN \/ ~Truthy(data.title) \/ ~Truthy(data.slug) \/ ~Truthy(data.content)
         \/ ~Truthy(data.excerpt) \/ ~Truthy(data.author)
    ELSE \/ ~Truthy(data.name) \/ ~Truthy(data.slug) \/ NotNumber(data.price)

\* if (!formData.title || !formData.slug || ...) / if (!body.name || ...)
RequiredMissing(op, data) ==
    IF CollectionOf(op) = "posts"
    THEN \/ ~Truthy(data.title) \/ ~Truthy(data.slug) \/ ~Truthy(data.content)
         \/ ~Truthy(data.excerpt) \/ ~Truthy(data.author) \/ ~Truthy(data.category)
    ELSE \/ ~Truthy(data.name) \/ ~Truthy(data.slug) \/ NotNumber(data.price)
         \/ ~Truthy(data.category)

MissingFieldsError(op) ==
    IF CollectionOf(op) = "posts"
    THEN "Missing required fields: title, slug, content, excerpt, author, category"
    ELSE "Missing required fields: name, slug, price, category"

\* return { success: false, error } from the validation, outside the catch
Rejected(message) ==
    [returned |-> TRUE, success |-> FALSE, error |-> message, count |-> 0, thrown |-> ""]

\* NextResponse.json({ success: false, error }, { status: 400 })
BadRequest(message) ==
    [status |-> 400, success |-> FALSE, method |-> "", hasPagination |-> FALSE,
     pagination |-> NoResult, error |-> message]

\* NextResponse.json({ success: true, method: 'Create Document', data })
CreatedResponse ==
    [status |-> 200, success |-> TRUE, method |-> "Create Document", hasPagination |-> FALSE,
     pagination |-> NoResult, error |-> ""]

\* the values a string property of the submitted object takes: undefined
\* (written NULL), '' and a text
FieldValues == {NULL, <<>>, <<"x">>}

PostForms ==
    [title : FieldValues, slug : FieldValues, content : FieldValues,
     excerpt : FieldValues, author : FieldValues, category : FieldValues]

ProductForms ==
    [name : FieldValues, slug : FieldValues, price : {NoPrice, Price(0), Price(5)},
     category : FieldValues]

Forms(op) == IF CollectionOf(op) = "posts" THEN PostForms ELSE ProductForms

\* the submitted objects of the create actions a client invokes among other
\* actions; a post form may carry the optional status, here 'published'
CreateInputs(op) ==
    IF CollectionOf(op) = "posts"
    THEN {f \in PostForms :
            /\ \A k \in {"slug", "content", "excerpt", "author", "category"} : f[k] = <<"x">>
            /\ f.title \in {NULL, <<"x">>}}
         \cup {[k \in {"title", "slug", "content", "excerpt", "author", "category", "status"} |->
                 IF k = "status" THEN "published" ELSE <<"x">>]}
    ELSE {f \in ProductForms :
            /\ \A k \in {"name", "slug", "category"} : f[k] = <<"x">>
            /\ f.price \in {Price(0), Price(5)}}

\* the id payload.create gives the new document
NewId == <<"c1", "c2", "c3", "c4">>[1 + Cardinality({j \in 1..Len(log) : log[j].kind = "create"})]

CreateData_DropsCategory(op, formData) ==
    [f \in DOMAIN formData \ {"category"} |-> formData[f]]

\* payload.create({ collection, data: formData }) / data: body
CreateData(op, formData) == formData

\* the document the store keeps for a create: the data it was given, under
\* a new id and with its creation time
StoredDocument(data, id, now) ==
    [f \in DOMAIN data \cup {"id", "createdAt"} |->
       IF f = "id" THEN id ELSE IF f = "createdAt" THEN now ELSE data[f]]

\* a client invokes createPost / createProduct
InvokeCreate ==
    /\ started < MaxCalls
    /\ \E op \in CreateActionOps : \E data \in CreateInputs(op) :
         calls' = Append(calls, NewCall(op, "", <<>>, data, "create"))
    /\ started' = started + 1
    /\ UNCHANGED <<store, log>>
    /\ UNCHANGED qvars /\ UNCHANGED pvars

\* createPost / createProduct: the validation, then await payload.create,
\* revalidatePath twice and the success return; the catch block on a throw
CreateStep(c) ==
    /\ calls[c].op \in CreateActionOps /\ calls[c].pc = "create"
    /\ LET op == calls[c].op
           coll == CollectionOf(op)
           data == calls[c].updates
       IN  IF RequiredMissing(op, data)
           THEN /\ calls' = [calls EXCEPT ![c].outcome = Rejected(MissingFieldsError(op)),
                                          ![c].pc = "done"]
                /\ UNCHANGED <<store, log>>
           ELSE \/ /\ store' = [store EXCEPT ![coll] =
                                   [k \in DOMAIN store[coll] \cup {NewId} |->
                                      IF k = NewId
                                      THEN StoredDocument(CreateData(op, data), NewId, Now)
                                      ELSE store[coll][k]]]
                   /\ log' = Append(log, Commit(c, "create", coll, NewId, CreateData(op, data),
                                                NoDoc,
                                                StoredDocument(CreateData(op, data), NewId, Now)))
                   /\ calls' = [calls EXCEPT ![c].id = NewId,
                                             ![c].wrote = <<Len(log) + 1>>,
                                             ![c].ops = Append(@, "ok"),
                                             ![c].outcome = Succeeded(1),
                                             ![c].revalidated = RevalidatedPaths,
                                             ![c].pc = "done"]
                \/ /\ \E m \in ErrorMessages :
                        calls' = [calls EXCEPT ![c].outcome = Failed(op, m),
                                               ![c].ops = Append(@, "threw"),
                                               ![c].pc = "done"]
                   /\ UNCHANGED <<store, log>>
    /\ UNCHANGED started
    /\ UNCHANGED qvars /\ UNCHANGED pvars

\* POST /api/examples/posts, POST /api/examples/products: the validation,
\* then await payload.create and the JSON response; no revalidatePath
POSTStep(c) ==
    /\ calls[c].op \in CreateRouteOps /\ calls[c].pc = "create"
    /\ LET op == calls[c].op
           coll == CollectionOf(op)
           body == calls[c].updates
       IN  IF RequiredMissing(op, body)
           THEN /\ calls' = [calls EXCEPT ![c].outcome = Rejected(MissingFieldsError(op)),
                                          ![c].pc = "done"]
                /\ response' = BadRequest(MissingFieldsError(op))
                /\ UNCHANGED <<store, log>>
           ELSE \/ /\ store' = [store EXCEPT ![coll] =
                                   [k \in DOMAIN store[coll] \cup {NewId} |->
                                      IF k = NewId
                                      THEN StoredDocument(CreateData(op, body), NewId, Now)
                                      ELSE store[coll][k]]]
                   /\ log' = Append(log, Commit(c, "create", coll, NewId, CreateData(op, body),
                                                NoDoc,
                                                StoredDocument(CreateData(op, body), NewId, Now)))
                   /\ calls' = [calls EXCEPT ![c].id = NewId,
                                             ![c].wrote = <<Len(log) + 1>>,
                                             ![c].ops = Append(@, "ok"),
                                             ![c].outcome = Succeeded(1),
                                             ![c].pc = "done"]
                   /\ response' = CreatedResponse
                \/ /\ \E m \in ErrorMessages :
                        /\ calls' = [calls EXCEPT ![c].outcome = Failed(op, m),
                                                  ![c].ops = Append(@, "threw"),
                                                  ![c].pc = "done"]
                        /\ response' = ErrorResponse(m, FallbackError(op))
                   /\ UNCHANGED <<store, log>>
    /\ UNCHANGED <<started, route, sp, qpc, findArgs, findResult>>
    /\ UNCHANGED pvars

UpdateOps == {"updatePost", "updateProduct", "updatePostReadTime", "updateProductInventory"}

\* the second argument the update actions are invoked with: a partial
\* document, a read time, an inventory
UpdateArgs(op) ==
    CASE op = "updatePost"             -> {[featured |-> TRUE], [status |-> "draft"]}
      [] op = "updateProduct"          -> {[category |-> "games"]}
      [] op = "updatePostReadTime"     -> {[readTime |-> 0], [readTime |-> 1], [readTime |-> 7]}
      [] op = "updateProductInventory" -> {[inventory |-> -1], [inventory |-> 0],
                                           [inventory |-> 4]}

\* if (readTime < 1) / if (inventory < 0): the error text, "" when the
\* argument passes (updatePost and updateProduct validate nothing)
UpdateRejection(op, arg) ==
    IF op = "updatePostReadTime" /\ arg.readTime < 1
    THEN "Read time must be at least 1 minute"
    ELSE IF op = "updateProductInventory" /\ arg.inventory < 0
    THEN "Inventory cannot be negative"
    ELSE ""

UpdateData_ZeroIsInStock(op, arg) ==
    IF op = "updateProductInventory"
    THEN [inventory |-> arg.inventory, inStock |-> arg.inventory >= 0]
    ELSE arg

\* the data object passed to payload.update
UpdateData(op, arg) ==
    IF op = "updateProductInventory"
    THEN [inventory |-> arg.inventory, inStock |-> arg.inventory > 0]
    ELSE arg

\* a client invokes updatePost / updateProduct / updatePostReadTime /
\* updateProductInventory
InvokeUpdate ==
    /\ started < MaxCalls
    /\ \E op \in UpdateOps, id \in {"1", MissingId} : \E arg \in UpdateArgs(op) :
         calls' = Append(calls, NewCall(op, id, <<>>, arg, "update"))
    /\ started' = started + 1
    /\ UNCHANGED <<store, log>>
    /\ UNCHANGED qvars /\ UNCHANGED pvars

\* update*: the validation, then await payload.update, revalidatePath
\* twice and the success return; the catch block on a throw
UpdateStep(c) ==
    /\ calls[c].op \in UpdateOps /\ calls[c].pc = "update"
    /\ LET op == calls[c].op
           coll == CollectionOf(op)
           id == calls[c].id
           data == UpdateData(op, calls[c].updates)
       IN  IF UpdateRejection(op, calls[c].updates) # ""
           THEN /\ calls' = [calls EXCEPT
                               ![c].outcome = Rejected(UpdateRejection(op, calls[c].updates)),
                               ![c].pc = "done"]
                /\ UNCHANGED <<store, log>>
           ELSE IF Exists(coll, id)
           THEN LET after == Merge(store[coll][id], data) IN
                /\ store' = [store EXCEPT ![coll][id] = after]
                /\ log' = Append(log, Commit(c, "update", coll, id, data, store[coll][id], after))
                /\ calls' = [calls EXCEPT ![c].wrote = <<Len(log) + 1>>,
                                          ![c].ops = Append(@, "ok"),
                                          ![c].outcome = Succeeded(1),
                                          ![c].revalidated = RevalidatedPaths,
                                          ![c].pc = "done"]
           ELSE /\ calls' = [calls EXCEPT ![c].outcome = Failed(op, "Not Found"),
                                          ![c].ops = Append(@, "threw"),
                                          ![c].pc = "done"]
                /\ UNCHANGED <<store, log>>
    /\ UNCHANGED started
    /\ UNCHANGED qvars /\ UNCHANGED pvars

GetByIdOps    == {"GET /api/examples/posts/[id]", "GET /api/examples/products/[id]"}
PatchByIdOps  == {"PATCH /api/examples/posts/[id]", "PATCH /api/examples/products/[id]"}
DeleteByIdOps == {"DELETE /api/examples/posts/[id]", "DELETE /api/examples/products/[id]"}
ByIdOps == GetByIdOps \cup PatchByIdOps \cup DeleteByIdOps

\* the request bodies the PATCH routes are exercised with
PatchBodies(op) ==
    IF CollectionOf(op) = "posts"
    THEN {[featured |-> TRUE], [status |-> "published"]}
    ELSE {[inStock |-> FALSE]}

\* NextResponse.json({ success: true, method, ... })
ByIdResponse(op) ==
    [status |-> 200, success |-> TRUE,
     method |-> IF op \in GetByIdOps THEN "Find by ID"
                ELSE IF op \in PatchByIdOps THEN "Update by ID" ELSE "Delete by ID",
     hasPagination |-> FALSE, pagination |-> NoResult, error |-> ""]

\* GET / PATCH / DELETE /api/examples/{posts,products}/[id]: the one store
\* call (findByID, update, delete) and the JSON response.  findByID throws
\* NotFound for an id without a document, so `if (!post)` never sees null.
ByIdStep(c) ==
    /\ calls[c].op \in ByIdOps /\ calls[c].pc = "byid"
    /\ LET op == calls[c].op
           coll == CollectionOf(op)
           id == calls[c].id
       IN  IF ~Exists(coll, id)
           THEN /\ calls' = [calls EXCEPT ![c].outcome = Failed(op, "Not Found"),
                                          ![c].ops = Append(@, "threw"),
                                          ![c].pc = "done"]
                /\ response' = ErrorResponse("Not Found", FallbackError(op))
                /\ UNCHANGED <<store, log>>
           ELSE /\ response' = ByIdResponse(op)
                /\ CASE op \in GetByIdOps ->
                          /\ calls' = [calls EXCEPT ![c].doc = store[coll][id],
                                                    ![c].seen = Len(log),
                                                    ![c].ops = Append(@, "ok"),
                                                    ![c].outcome = Succeeded(1),
                                                    ![c].pc = "done"]
                          /\ UNCHANGED <<store, log>>
                     [] op \in PatchByIdOps ->
                          LET after == Merge(store[coll][id], calls[c].updates) IN
                          /\ store' = [store EXCEPT ![coll][id] = after]
                          /\ log' = Append(log, Commit(c, "update", coll, id, calls[c].updates,
                                                       store[coll][id], after))
                          /\ calls' = [calls EXCEPT ![c].doc = after,
                                                    ![c].wrote = <<Len(log) + 1>>,
                                                    ![c].ops = Append(@, "ok"),
                                                    ![c].outcome = Succeeded(1),
                                                    ![c].pc = "done"]
                     [] op \in DeleteByIdOps ->
                          /\ store' = [store EXCEPT ![coll] =
                                         [k \in DOMAIN store[coll] \ {id} |-> store[coll][k]]]
                          /\ log' = Append(log, Commit(c, "delete", coll, id, NoData,
                                                       store[coll][id], NoDoc))
                          /\ calls' = [calls EXCEPT ![c].wrote = <<Len(log) + 1>>,
                                                    ![c].ops = Append(@, "ok"),
                                                    ![c].outcome = Succeeded(1),
                                                    ![c].pc = "done"]
    /\ UNCHANGED <<started, route, sp, qpc, findArgs, findResult>>
    /\ UNCHANGED pvars

\* the store call a handler is awaiting throws for a reason of the store's
\* own (connection lost, hook or validation error): the catch block
StoreCallThrows(c) ==
    /\ calls[c].pc \in {"read", "write", "loop", "delete", "byid", "update"}
    /\ calls[c].pc = "loop" => calls[c].ids # <<>>
    /\ calls[c].pc = "update" => UpdateRejection(calls[c].op, calls[c].updates) = ""
    /\ \E m \in ErrorMessages :
         /\ calls' = [calls EXCEPT ![c].outcome = Failed(calls[c].op, m),
                                   ![c].ops = Append(@, "threw"),
                                   ![c].pc = "done"]
         /\ IF calls[c].op \in ByIdOps
            THEN response' = ErrorResponse(m, FallbackError(calls[c].op))
            ELSE UNCHANGED response
    /\ UNCHANGED <<store, log, started, route, sp, qpc, findArgs, findResult>>
    /\ UNCHANGED pvars

\* the store when a run starts: post 1 in the given state, dates before the
\* run are negative, 0 is an unset publishedDate
InitialStore(st, pd) ==
    [posts |-> [id \in PostIds |->
                  IF id = "1"
                  THEN [slug |-> <<"a">>, status |-> st, featured |-> (st = "published"),
                        publishedDate |-> pd, category |-> "tech", readTime |-> 5]
                  ELSE [slug |-> <<"b">>, status |-> "published", featured |-> FALSE,
                        publishedDate |-> -2, category |-> "tech", readTime |-> 5]],
     products |-> [id \in ProductIds |->
                  [slug |-> <<"a">>, inStock |-> (pd = 0), featured |-> (pd # 0),
                   category |-> "toys", inventory |-> IF pd = 0 THEN 3 ELSE 0]]]

ANext ==
    \/ InvokeToggle
    \/ InvokeBulk
    \/ InvokeDelete
    \/ \E c \in 1..Len(calls) : ToggleRead(c)
    \/ \E c \in 1..Len(calls) : ToggleWrite(c)
    \/ \E c \in 1..Len(calls) : BulkStep(c)
    \/ \E c \in 1..Len(calls) : DeleteStep(c)

(***************************************************************************)
(* The Local API examples page: a server component whose render awaits     *)
(* its store queries one after another while other requests run.           *)
(***************************************************************************)
PageOp == "LocalAPIExamplesPage"

\* countDocuments(collection, where): payload.find({collection, where,
\* limit: 0}).totalDocs, with where either absent or {status: {equals: s}}
countDocuments(collection, status) ==
    Cardinality({id \in DOMAIN store[collection] :
                   \/ status = ""
                   \/ /\ "status" \in DOMAIN store[collection][id]
                      /\ store[collection][id].status = status})

\* a browser requests the page; the render runs its three list queries
\* (their results feed the lists, not the statistics) and comes to Example 4
InvokePage ==
    /\ started < MaxCalls
    /\ calls' = Append(calls, NewCall(PageOp, "", <<>>, NoData, "countTotal"))
    /\ started' = started + 1
    /\ UNCHANGED <<store, log>>
    /\ UNCHANGED qvars /\ UNCHANGED pvars

\* const totalPosts = await countDocuments('posts')
PageCountTotal(c) ==
    /\ calls[c].op = PageOp /\ calls[c].pc = "countTotal"
    /\ calls' = [calls EXCEPT ![c].doc = [totalPosts |-> countDocuments("posts", "")],
                              ![c].seen = Len(log),
                              ![c].ops = Append(@, "ok"),
                              ![c].pc = "countPublished"]
    /\ UNCHANGED <<store, log, started>>
    /\ UNCHANGED qvars /\ UNCHANGED pvars

\* const publishedCount = await countDocuments('posts', {status: {equals:
\* 'published'}}), then the last query and the JSX with the three StatCards:
\* Total Posts, Published, Drafts = totalPosts - publishedCount
PageCountPublished(c) ==
    /\ calls[c].op = PageOp /\ calls[c].pc = "countPublished"
    /\ LET publishedCount == countDocuments("posts", "published")
           totalPosts == calls[c].doc.totalPosts
       IN  calls' = [calls EXCEPT ![c].doc = [totalPosts |-> totalPosts,
                                              publishedCount |-> publishedCount,
                                              drafts |-> totalPosts - publishedCount],
                                  ![c].ops = Append(@, "ok"),
                                  ![c].outcome = Succeeded(0),
                                  ![c].pc = "done"]
    /\ UNCHANGED <<store, log, started>>
    /\ UNCHANGED qvars /\ UNCHANGED pvars

\* page renders among the create, toggle and delete actions of other requests
GNext ==
    \/ InvokePage
    \/ InvokeCreate
    \/ InvokeToggle
    \/ InvokeDelete
    \/ \E c \in 1..Len(calls) : PageCountTotal(c)
    \/ \E c \in 1..Len(calls) : PageCountPublished(c)
    \/ \E c \in 1..Len(calls) : CreateStep(c)
    \/ \E c \in 1..Len(calls) : ToggleRead(c)
    \/ \E c \in 1..Len(calls) : ToggleWrite(c)
    \/ \E c \in 1..Len(calls) : DeleteStep(c)

\* the server actions over a store holding post 1 in any state; no
\* collection GET request, no preview request
InitActions ==
    /\ \E st \in {"draft", "published"}, pd \in {0, -1} : store = InitialStore(st, pd)
    /\ log = <<>>
    /\ calls = <<>>
    /\ started = 0
    /\ route = "none"
    /\ sp = <<>>
    /\ qpc = "done"
    /\ findArgs = NoFind
    /\ findResult = NoFindOutcome
    /\ response = NoResponse
    /\ draftMode = FALSE
    /\ pvReq = NoPvRequest
    /\ pvResp = NoPvResponse

SpecActions == InitActions /\ [][ANext]_vars

SpecPage == InitActions /\ [][GNext]_vars

\* a client that awaits each action before it invokes the next one
AllDone == \A c \in 1..Len(calls) : calls[c].pc = "done"

SNext ==
    \/ AllDone /\ InvokeToggle
    \/ AllDone /\ InvokeBulk
    \/ AllDone /\ InvokeDelete
    \/ AllDone /\ InvokeCreate
    \/ AllDone /\ InvokeUpdate
    \/ \E c \in 1..Len(calls) : ToggleRead(c)
    \/ \E c \in 1..Len(calls) : ToggleWrite(c)
    \/ \E c \in 1..Len(calls) : BulkStep(c)
    \/ \E c \in 1..Len(calls) : DeleteStep(c)
    \/ \E c \in 1..Len(calls) : CreateStep(c)
    \/ \E c \in 1..Len(calls) : UpdateStep(c)

\* every mutation action, create included, invoked one after another
SpecSerial == InitActions /\ [][SNext]_vars

HNext ==
    \/ GETPosts
    \/ GETProducts
    \/ \E c \in 1..Len(calls) : ToggleRead(c)
    \/ \E c \in 1..Len(calls) : ToggleWrite(c)
    \/ \E c \in 1..Len(calls) : BulkStep(c)
    \/ \E c \in 1..Len(calls) : DeleteStep(c)
    \/ \E c \in 1..Len(calls) : CreateStep(c)
    \/ \E c \in 1..Len(calls) : POSTStep(c)
    \/ \E c \in 1..Len(calls) : ByIdStep(c)
    \/ \E c \in 1..Len(calls) : UpdateStep(c)
    \/ \E c \in 1..Len(calls) : StoreCallThrows(c)

\* one request to a route or one invocation of an action, whichever it is,
\* over a store whose calls may fail
InitHandlers ==
    /\ \E st \in {"draft", "published"}, pd \in {0, -1} : store = InitialStore(st, pd)
    /\ log = <<>>
    /\ findArgs = NoFind
    /\ findResult = NoFindOutcome
    /\ response = NoResponse
    /\ draftMode = FALSE
    /\ pvReq = NoPvRequest
    /\ pvResp = NoPvResponse
    /\ \/ /\ qpc = "pending" /\ calls = <<>> /\ started = 0
          /\ route \in {"posts", "products"}
          /\ sp \in {p \in (IF route = "posts" THEN PostsParams ELSE ProductsParams) :
                       \A k \in DOMAIN p \ {"search"} : p[k] = NULL}
       \/ /\ qpc = "done" /\ route = "none" /\ sp = <<>> /\ started = 1
          /\ \/ \E op \in ToggleOps, id \in {"1", MissingId} :
                  calls = <<NewCall(op, id, <<>>, NoData, "read")>>
             \/ \E op \in BulkOps : \E ids \in BulkIdLists(op), updates \in BulkUpdates(op) :
                  calls = <<NewCall(op, "", ids, updates, "loop")>>
             \/ \E op \in DeleteOps, id \in {"1", MissingId} :
                  calls = <<NewCall(op, id, <<>>, NoData, "delete")>>
             \/ \E op \in CreateActionOps \cup CreateRouteOps : \E data \in CreateInputs(op) :
                  calls = <<NewCall(op, "", <<>>, data, "create")>>
             \/ \E op \in UpdateOps, id \in {"1", MissingId} : \E arg \in UpdateArgs(op) :
                  calls = <<NewCall(op, id, <<>>, arg, "update")>>
             \/ \E op \in ByIdOps, id \in {"1", MissingId} : \E body \in PatchBodies(op) :
                  calls = <<NewCall(op, id, <<>>,
                                    IF op \in PatchByIdOps THEN body ELSE NoData, "byid")>>

SpecHandlers == InitHandlers /\ [][HNext]_vars

\* a client requests the record a successful create returned, by its id:
\* GET, PATCH (a new slug) or DELETE
InvokeByIdOnCreated ==
    /\ started < MaxCalls + 1
    /\ \E c \in 1..Len(calls) :
         /\ calls[c].op \in CreateActionOps \cup CreateRouteOps
         /\ calls[c].pc = "done" /\ calls[c].outcome.success
         /\ \E op \in ByIdOps :
              /\ CollectionOf(op) = CollectionOf(calls[c].op)
              /\ calls' = Append(calls,
                     NewCall(op, calls[c].id, <<>>,
                             IF op \in PatchByIdOps THEN [slug |-> <<"y">>] ELSE NoData,
                             "byid"))
    /\ started' = started + 1
    /\ UNCHANGED <<store, log>>
    /\ UNCHANGED qvars /\ UNCHANGED pvars

CNext ==
    \/ \E c \in 1..Len(calls) : CreateStep(c)
    \/ \E c \in 1..Len(calls) : POSTStep(c)
    \/ InvokeByIdOnCreated
    \/ \E c \in 1..Len(calls) : ByIdStep(c)

\* one invocation of a create action or one POST request, with any
\* submitted object, over a store holding the initial documents; by-id
\* requests for the created record follow
InitCreate ==
    /\ \E op \in CreateActionOps \cup CreateRouteOps : \E data \in Forms(op) :
         calls = <<NewCall(op, "", <<>>, data, "create")>>
    /\ started = 1
    /\ store = InitialStore("draft", 0)
    /\ log = <<>>
    /\ route = "none"
    /\ sp = <<>>
    /\ qpc = "done"
    /\ findArgs = NoFind
    /\ findResult = NoFindOutcome
    /\ response = NoResponse
    /\ draftMode = FALSE
    /\ pvReq = NoPvRequest
    /\ pvResp = NoPvResponse

SpecCreate == InitCreate /\ [][CNext]_vars

(***************************************************************************)
(* Properties of the server actions (checked under SpecActions).           *)
(***************************************************************************)
Calls == 1..Len(calls)

\* the log positions in lo..hi that are commits on a record
CommitsOn(coll, id, lo, hi) ==
    {j \in lo..hi : log[j].coll = coll /\ log[j].id = id}

\* two finished invocations of one toggle on one record, each of which wrote
SameToggle(a, b) ==
    /\ a # b
    /\ calls[a].op \in ToggleOps
    /\ calls[a].op = calls[b].op /\ calls[a].id = calls[b].id
    /\ Len(calls[a].wrote) = 1 /\ Len(calls[b].wrote) = 1
    /\ calls[a].wrote[1] < calls[b].wrote[1]

\* b read after a wrote, and nothing else wrote the record from a's read on
SequentialToggles(a, b) ==
    /\ SameToggle(a, b)
    /\ calls[b].seen >= calls[a].wrote[1]
    /\ CommitsOn(CollectionOf(calls[a].op), calls[a].id,
                 calls[a].seen + 1, calls[b].wrote[1])
         = {calls[a].wrote[1], calls[b].wrote[1]}

\* C6: two successive successful invocations of a toggle on one record, with
\* no other write in between, leave the toggled field as it was before the first.
C6_ToggleTwiceRestores ==
    \A a \in Calls, b \in Calls :
        SequentialToggles(a, b) =>
            log[calls[b].wrote[1]].after[ToggleField(calls[a].op)]
                = calls[a].doc[ToggleField(calls[a].op)]

C6_Witness ==
    \E a \in Calls, b \in Calls :
        /\ SequentialToggles(a, b)
        /\ calls[a].op = "togglePostStatus"
        /\ calls[a].doc.status = "draft"
        /\ calls[a].outcome.success /\ calls[b].outcome.success
        /\ store.posts["1"].status = "draft"

\* both reads happened before either write, and nothing else wrote the record
RacingToggles(a, b) ==
    /\ SameToggle(a, b)
    /\ calls[a].seen < calls[a].wrote[1]
    /\ calls[b].seen < calls[a].wrote[1]
    /\ LET first == IF calls[a].seen < calls[b].seen THEN calls[a].seen ELSE calls[b].seen
       IN  CommitsOn(CollectionOf(calls[a].op), calls[a].id, first + 1, calls[b].wrote[1])
             = {calls[a].wrote[1], calls[b].wrote[1]}

\* C7: when two invocations of a toggle on one record both read before either
\* writes, both report success and the field ends flipped once from its
\* original value: the second write repeats the first (a lost update).
C7_RacingTogglesFlipOnce ==
    \A a \in Calls, b \in Calls :
        RacingToggles(a, b) =>
            LET f == ToggleField(calls[a].op) IN
            /\ calls[a].outcome.success /\ calls[b].outcome.success
            /\ calls[a].doc[f] = calls[b].doc[f]
            /\ log[calls[a].wrote[1]].after[f] # calls[a].doc[f]
            /\ log[calls[b].wrote[1]].after[f] = log[calls[a].wrote[1]].after[f]

C7_Witness ==
    \E a \in Calls, b \in Calls :
        /\ RacingToggles(a, b)
        /\ calls[a].op = "toggleProductStock"
        /\ calls[a].doc.inStock = TRUE
        /\ store.products["1"].inStock = FALSE
        /\ calls[b].pc = "done"

\* a bulk update that stopped at a write that failed
BulkFailedAt(c, i) ==
    /\ calls[c].op \in BulkOps
    /\ calls[c].pc = "done"
    /\ calls[c].i = i /\ i <= Len(calls[c].ids)

\* C8: when the write for some id of a bulk update fails, every write issued
\* before it stays committed in the store (no rollback) and the action
\* returns success = false.
C8_BulkFailureKeepsEarlierWrites ==
    \A c \in Calls : \A i \in 1..Len(calls[c].ids) :
        BulkFailedAt(c, i) =>
            /\ calls[c].outcome.returned /\ ~calls[c].outcome.success
            /\ Len(calls[c].wrote) = i - 1
            /\ \A k \in 1..(i - 1) :
                 LET j == calls[c].wrote[k]
                     coll == CollectionOf(calls[c].op)
                     id == calls[c].ids[k]
                 IN  /\ log[j].call = c /\ log[j].id = id /\ log[j].coll = coll
                     /\ \A f \in DOMAIN calls[c].updates : log[j].after[f] = calls[c].updates[f]
                     /\ CommitsOn(coll, id, j + 1, Len(log)) = {} =>
                            /\ Exists(coll, id)
                            /\ store[coll][id] = log[j].after

C8_Witness ==
    \E c \in Calls :
        /\ BulkFailedAt(c, 2)
        /\ calls[c].ids = <<"1", MissingId, "2">>
        /\ calls[c].updates = [featured |-> TRUE]
        /\ log[calls[c].wrote[1]].before.featured = FALSE
        /\ store.posts["1"].featured = TRUE
        /\ ~calls[c].outcome.success

\* C9: a bulk update writes one id at a time in list order, one write per
\* id; after a failed write it issues no further write; when every write
\* succeeds the reported count is the length of the id list.
C9_BulkWritesInListOrder ==
    \A c \in Calls :
        calls[c].op \in BulkOps =>
            LET w == calls[c].wrote
                ids == calls[c].ids
            IN  /\ Len(w) <= Len(ids)
                /\ {j \in 1..Len(log) : log[j].call = c} = {w[k] : k \in 1..Len(w)}
                /\ \A k \in 1..Len(w) :
                     /\ log[w[k]].id = ids[k]
                     /\ log[w[k]].data = calls[c].updates
                     /\ k > 1 => w[k - 1] < w[k]
                /\ calls[c].pc = "loop" => calls[c].i = Len(w) + 1
                /\ (calls[c].pc = "done" /\ ~calls[c].outcome.success) =>
                     /\ Len(w) < Len(ids)
                     /\ calls[c].i = Len(w) + 1
                /\ (calls[c].pc = "done" /\ calls[c].outcome.success) =>
                     /\ Len(w) = Len(ids)
                     /\ calls[c].outcome.count = Len(ids)

C9_Witness ==
    \E c \in Calls, d \in Calls :
        /\ calls[c].op = "bulkUpdatePosts" /\ calls[c].ids = <<"2", "1">>
        /\ calls[c].pc = "done" /\ calls[c].outcome.count = 2
        /\ calls[d].op = "bulkUpdatePosts" /\ calls[d].ids = <<"1", MissingId, "2">>
        /\ calls[d].pc = "done" /\ Len(calls[d].wrote) = 1

(***************************************************************************)
(* Properties of the create handlers (checked under SpecCreate) and of     *)
(* the invalidation of view paths (checked under SpecSerial).              *)
(***************************************************************************)
CreateOps == CreateActionOps \cup CreateRouteOps

\* a required property that the submitted object does not have
AbsentRequired(op, data) ==
    IF CollectionOf(op) = "posts"
    THEN \E k \in {"title", "slug", "content", "excerpt", "author", "category"} :
            data[k] = NULL
    ELSE \/ \E k \in {"name", "slug", "category"} : data[k] = NULL
         \/ ~data.price.given

\* the log positions of the commits an invocation made
CommitsOf(c) == {j \in 1..Len(log) : log[j].call = c}

\* C18: when a required field is missing, the create action returns a
\* failure envelope and the create route answers 400 with success = false;
\* no store call is issued and no view path is invalidated.
C18_MissingFieldRejected ==
    \A c \in Calls :
        (calls[c].op \in CreateOps /\ calls[c].pc = "done"
           /\ AbsentRequired(calls[c].op, calls[c].updates)) =>
            /\ calls[c].outcome.returned /\ ~calls[c].outcome.success
            /\ calls[c].outcome.error = MissingFieldsError(calls[c].op)
            /\ calls[c].ops = <<>> /\ CommitsOf(c) = {}
            /\ calls[c].revalidated = {}
            /\ IF calls[c].op \in CreateRouteOps
               THEN response.status = 400 /\ ~response.success
               ELSE response = NoResponse

C18_Witness ==
    \E c \in Calls :
        /\ calls[c].op = "POST /api/examples/products" /\ calls[c].pc = "done"
        /\ calls[c].updates.name = <<"x">> /\ calls[c].updates.slug = <<"x">>
        /\ calls[c].updates.category = NULL /\ calls[c].updates.price = Price(5)
        /\ response.status = 400 /\ log = <<>>

\* a product property that is absent or, for a text, empty
ProductFieldAbsent(data) ==
    \/ \E k \in {"name", "slug", "category"} : data[k] = NULL \/ data[k] = <<>>
    \/ ~data.price.given

\* C19: createProduct and POST /api/examples/products answer 'missing
\* required fields' only when one of name, slug, price, category is absent;
\* with all four present, a price of 0 included, they call the store's create.
C19_PresentFieldsDelegated ==
    \A c \in Calls :
        (calls[c].op \in {"createProduct", "POST /api/examples/products"}
           /\ calls[c].pc = "done") =>
            /\ calls[c].outcome.error = MissingFieldsError(calls[c].op)
                 => ProductFieldAbsent(calls[c].updates)
            /\ ~ProductFieldAbsent(calls[c].updates) => Len(calls[c].ops) = 1

\* the store calls an action makes when none of them fails
ExpectedOps(call) ==
    IF call.op \in ToggleOps THEN 2
    ELSE IF call.op \in BulkOps THEN Len(call.ids)
    ELSE 1

AllOpsOk(call) == \A k \in 1..Len(call.ops) : call.ops[k] = "ok"

\* C20: an action invalidates the two view paths exactly when it returns
\* success = true, which it does exactly when it made all of its store
\* calls and none failed; an action that returns success = false
\* (validation failure, store failure, bulk update stopped after a prefix)
\* invalidates no path.
C20_RevalidatesExactlyOnSuccess ==
    \A c \in Calls :
        /\ calls[c].revalidated =
              IF calls[c].pc = "done" /\ calls[c].outcome.success
              THEN RevalidatedPaths ELSE {}
        /\ calls[c].pc = "done" =>
              /\ calls[c].outcome.returned
              /\ calls[c].outcome.success <=>
                    /\ AllOpsOk(calls[c])
                    /\ Len(calls[c].ops) = ExpectedOps(calls[c])
        /\ \A k \in 1..Len(calls[c].ops) :
              calls[c].ops[k] = "threw" => k = Len(calls[c].ops) /\ calls[c].pc = "done"

C20_Witness ==
    \E c \in Calls, d \in Calls :
        /\ calls[c].op = "bulkUpdatePosts" /\ calls[c].pc = "done"
        /\ Len(calls[c].wrote) = 1 /\ ~calls[c].outcome.success
        /\ calls[c].revalidated = {}
        /\ calls[d].op = "createProduct" /\ calls[d].pc = "done"
        /\ calls[d].outcome.success /\ calls[d].revalidated = RevalidatedPaths

(***************************************************************************)
(* The preview and exit-draft routes and the draft-mode flag.              *)
(***************************************************************************)
ServerSecret == "payload-secret"   \* payload.secret

\* the values of the payload-token cookie: no cookie, an empty value, a
\* string that is no JWT, and JWTs by signing key, expiry and payload
Tokens ==
    { NoToken,
      [kind |-> "empty",     key |-> "",              expired |-> FALSE, payload |-> ""],
      [kind |-> "malformed", key |-> "",              expired |-> FALSE, payload |-> ""],
      [kind |-> "jwt",       key |-> "attacker-key",  expired |-> FALSE, payload |-> "user"],
      [kind |-> "jwt",       key |-> ServerSecret,    expired |-> TRUE,  payload |-> "user"],
      [kind |-> "jwt",       key |-> ServerSecret,    expired |-> FALSE, payload |-> ""],
      [kind |-> "jwt",       key |-> ServerSecret,    expired |-> FALSE, payload |-> "user"] }

\* const token = cookies().get('payload-token')?.value; `!token`
TokenMissing(token) == token.kind \in {"none", "empty"}

VerifyThrows_DecodeOnly(token, secret) == token.kind # "jwt"

\* jwt.verify(token, secret) throws unless the token is a JWT signed with
\* the secret and not expired ...
VerifyThrows(token, secret) ==
    ~(token.kind = "jwt" /\ token.key = secret /\ ~token.expired)

\* ... and otherwise returns the decoded payload
VerifiedUser(token) == token.payload

PostsName    == <<"p", "o", "s", "t", "s">>
ProductsName == <<"p", "r", "o", "d", "u", "c", "t", "s">>

\* the store's collection a collection slug names, "" for none
CollectionNamed(name) ==
    IF name = PostsName THEN "posts"
    ELSE IF name = ProductsName THEN "products"
    ELSE ""

\* payload.find({collection, where: {slug: {equals: slug}}, draft: true,
\* limit: 1}).docs.length, for a collection the store has
DocsWithSlug(coll, slug) ==
    Cardinality({id \in DOMAIN store[coll] : store[coll][id].slug = slug})

PreviewRequests ==
    [ route      : {"preview"},
      path       : {NULL, <<>>, <<"/", "p", "/", "a">>, <<"/", "/", "e", "v", "i", "l">>,
                    <<"h", "t", "t", "p", "s", ":", "/", "/", "e", "v", "i", "l">>},
      collection : {NULL, PostsName, <<"n", "o", "n", "e">>},
      slug       : {NULL, <<"a">>, <<"z">>},
      token      : Tokens ]

ExitRequests ==
    [ route      : {"exit-draft"},
      path       : {NULL, <<>>, <<"/", "p", "/", "a">>, <<"/", "/", "e", "v", "i", "l">>,
                    <<"h", "t", "t", "p", "s", ":", "/", "/", "e", "v", "i", "l">>},
      collection : {NULL},
      slug       : {NULL},
      token      : Tokens ]

\* new Response(body, {status})
Respond(status, body, logged, before) ==
    [status |-> status, body |-> body, location |-> NULL, logged |-> logged,
     before |-> before, asked |-> "none"]

Redirect_SameOriginOnly(path, logged, before) ==
    [status |-> 307, body |-> "",
     location |-> IF Len(path) > 0 /\ path[1] = "/" /\ (Len(path) = 1 \/ path[2] # "/")
                  THEN path ELSE <<"/">>,
     logged |-> logged, before |-> before, asked |-> "none"]

\* redirect(path)
Redirect(path, logged, before) ==
    [status |-> 307, body |-> "", location |-> path, logged |-> logged,
     before |-> before, asked |-> "none"]

Forbidden == "You are not allowed to preview this page"

\* the branch of the preview handler a request takes; the lookup throws for
\* a collection the store does not have, or when the store fails
PreviewBranch_TokenOptional(req, fault) ==
    IF ~Truthy(req.path) THEN "no-path"
    ELSE IF ~TokenMissing(req.token) /\ VerifyThrows(req.token, ServerSecret) THEN "bad-token"
    ELSE IF ~TokenMissing(req.token) /\ VerifiedUser(req.token) = "" THEN "no-user"
    ELSE IF Truthy(req.collection) /\ Truthy(req.slug)
         THEN IF fault \/ CollectionNamed(req.collection) = "" THEN "lookup-failed"
              ELSE IF DocsWithSlug(CollectionNamed(req.collection), req.slug) = 0
                   THEN "not-found"
                   ELSE "found"
         ELSE "no-lookup"

PreviewBranch_RequiresLookup(req, fault) ==
    IF ~Truthy(req.path) THEN "no-path"
    ELSE IF TokenMissing(req.token) THEN "no-token"
    ELSE IF VerifyThrows(req.token, ServerSecret) THEN "bad-token"
    ELSE IF VerifiedUser(req.token) = "" THEN "no-user"
    ELSE IF Truthy(req.collection) /\ Truthy(req.slug)
         THEN IF fault \/ CollectionNamed(req.collection) = "" THEN "lookup-failed"
              ELSE IF DocsWithSlug(CollectionNamed(req.collection), req.slug) = 0
                   THEN "not-found"
                   ELSE "found"
         ELSE "not-found"

PreviewBranch_VerifyBeforePath(req, fault) ==
    IF ~TokenMissing(req.token) /\ VerifyThrows(req.token, ServerSecret) THEN "bad-token"
    ELSE IF ~Truthy(req.path) THEN "no-path"
    ELSE IF TokenMissing(req.token) THEN "no-token"
    ELSE IF VerifiedUser(req.token) = "" THEN "no-user"
    ELSE IF Truthy(req.collection) /\ Truthy(req.slug)
         THEN IF fault \/ CollectionNamed(req.collection) = "" THEN "lookup-failed"
              ELSE IF DocsWithSlug(CollectionNamed(req.collection), req.slug) = 0
                   THEN "not-found"
                   ELSE "found"
         ELSE "no-lookup"

PreviewBranch_TokenBeforePath(req, fault) ==
    IF TokenMissing(req.token) THEN "no-token"
    ELSE IF ~Truthy(req.path) THEN "no-path"
    ELSE IF VerifyThrows(req.token, ServerSecret) THEN "bad-token"
    ELSE IF VerifiedUser(req.token) = "" THEN "no-user"
    ELSE IF Truthy(req.collection) /\ Truthy(req.slug)
         THEN IF fault \/ CollectionNamed(req.collection) = "" THEN "lookup-failed"
              ELSE IF DocsWithSlug(CollectionNamed(req.collection), req.slug) = 0
                   THEN "not-found"
                   ELSE "found"
         ELSE "no-lookup"

PreviewBranch(req, fault) ==
    IF ~Truthy(req.path) THEN "no-path"
    ELSE IF TokenMissing(req.token) THEN "no-token"
    ELSE IF VerifyThrows(req.token, ServerSecret) THEN "bad-token"
    ELSE IF VerifiedUser(req.token) = "" THEN "no-user"
    ELSE IF Truthy(req.collection) /\ Truthy(req.slug)
         THEN IF fault \/ CollectionNamed(req.collection) = "" THEN "lookup-failed"
              ELSE IF DocsWithSlug(CollectionNamed(req.collection), req.slug) = 0
                   THEN "not-found"
                   ELSE "found"
         ELSE "no-lookup"

\* GET /next/preview?path&collection&slug
PreviewHandler(req, fault) ==
       LET branch == PreviewBranch(req, fault) IN
       /\ pvReq' = req
       /\ CASE branch = "no-path" ->
                 /\ pvResp' = Respond(404, "No path provided", "", draftMode)
                 /\ UNCHANGED draftMode
            [] branch \in {"no-token", "no-user"} ->
                 /\ pvResp' = Respond(403, Forbidden, "", draftMode)
                 /\ draftMode' = FALSE
            [] branch = "bad-token" ->
                 /\ pvResp' = Respond(403, Forbidden, "Token verification failed:", draftMode)
                 /\ draftMode' = FALSE
            [] branch = "not-found" ->
                 /\ pvResp' = Respond(404, "Document not found", "", draftMode)
                 /\ UNCHANGED draftMode
            [] branch = "lookup-failed" ->
                 /\ pvResp' = Redirect(req.path, "Error finding document:", draftMode)
                 /\ draftMode' = TRUE
            [] branch \in {"found", "no-lookup"} ->
                 /\ pvResp' = Redirect(req.path, "", draftMode)
                 /\ draftMode' = TRUE
       /\ UNCHANGED avars /\ UNCHANGED qvars

\* a client requests the preview route with any parameters and cookie
PreviewGET ==
    \E req \in PreviewRequests, fault \in BOOLEAN :
       /\ req.route = "preview"
       /\ PreviewHandler(req, fault)

ExitDraftGET_RequiresToken ==
    \E req \in ExitRequests :
       /\ pvReq' = req
       /\ IF TokenMissing(req.token) \/ VerifyThrows(req.token, ServerSecret)
          THEN /\ UNCHANGED draftMode
               /\ pvResp' = Respond(403, Forbidden, "", draftMode)
          ELSE /\ draftMode' = FALSE
               /\ pvResp' = Redirect(IF Truthy(req.path) THEN req.path ELSE <<"/">>,
                                     "", draftMode)
       /\ UNCHANGED avars /\ UNCHANGED qvars

\* GET /next/exit-draft?path; the handler reads no cookie
ExitDraftGET ==
    \E req \in ExitRequests :
       /\ pvReq' = req
       /\ draftMode' = FALSE
       /\ pvResp' = Redirect(IF Truthy(req.path) THEN req.path ELSE <<"/">>, "", draftMode)
       /\ UNCHANGED avars /\ UNCHANGED qvars

PageDraftArg_Always(isDraftMode) == TRUE

\* payload.find({ ..., draft: isDraftMode, limit: 1 })
PageDraftArg(isDraftMode) == isDraftMode

\* result.docs of the page's find: the posts with the slug; a query for
\* published revisions does not see a post that is still a draft
PageDocs(slug, draft) ==
    {id \in DOMAIN store.posts :
        /\ store.posts[id].slug = slug
        /\ draft \/ store.posts[id].status = "published"}

\* the post page /posts/[slug] is rendered: 200, or notFound() when the
\* find returns no document; `asked` is the revisions the find asked for
RenderPostPage(slug, path) ==
       LET draft == PageDraftArg(draftMode) IN
       /\ pvReq' = [route |-> "post-page", path |-> path, collection |-> PostsName,
                    slug |-> slug, token |-> NoToken]
       /\ pvResp' = [status |-> IF PageDocs(slug, draft) = {} THEN 404 ELSE 200,
                     body |-> "", location |-> NULL, logged |-> "", before |-> draftMode,
                     asked |-> IF draft THEN "draft" ELSE "published"]
       /\ UNCHANGED draftMode
       /\ UNCHANGED avars /\ UNCHANGED qvars

\* a browser requests the page of some slug
PostPage ==
    \E slug \in {<<"a">>, <<"b">>, <<"z">>} :
       /\ slug # <<>>
       /\ RenderPostPage(slug, NULL)

PNext == PreviewGET \/ ExitDraftGET \/ PostPage

\* draft mode off, no preview request yet, a store with draft post "a"
InitPreview ==
    /\ draftMode = FALSE
    /\ pvReq = NoPvRequest
    /\ pvResp = NoPvResponse
    /\ store = InitialStore("draft", 0)
    /\ log = <<>>
    /\ calls = <<>>
    /\ started = 0
    /\ route = "none"
    /\ sp = <<>>
    /\ qpc = "done"
    /\ findArgs = NoFind
    /\ findResult = NoFindOutcome
    /\ response = NoResponse

SpecPreview == InitPreview /\ [][PNext]_vars

(***************************************************************************)
(* The preview link of a post: generatePreviewPath builds it, the preview  *)
(* route parses it, and the browser follows the redirect to the post page. *)
(***************************************************************************)
MaxSlugLen == 2

\* the characters slugs are made of here: a letter, a hyphen, a blank and
\* three characters that mean something in a URL
SlugChars == {"a", "-", " ", "&", "/", "?"}

Slugs == UNION {[1..n -> SlugChars] : n \in 1..MaxSlugLen}

\* const collectionPrefixMap = { posts: '/posts' }; `?? ''` for the rest
collectionPrefixMap(collection) ==
    IF collection = PostsName THEN <<"/">> \o PostsName ELSE <<>>

\* URLSearchParams serialisation of one character: letters, digits and
\* * - . _ stay, a blank becomes '+', every other byte is %XX
FormEncodeChar(ch) ==
    CASE ch = " " -> <<"+">>
      [] ch = "/" -> <<"%", "2", "F">>
      [] ch = "?" -> <<"%", "3", "F">>
      [] ch = "&" -> <<"%", "2", "6">>
      [] ch = "=" -> <<"%", "3", "D">>
      [] ch = "+" -> <<"%", "2", "B">>
      [] ch = "%" -> <<"%", "2", "5">>
      [] ch = "#" -> <<"%", "2", "3">>
      [] OTHER    -> <<ch>>

RECURSIVE FormEncode(_)
FormEncode(s) ==
    IF s = <<>> THEN <<>> ELSE FormEncodeChar(Head(s)) \o FormEncode(Tail(s))

\* generatePreviewPath({collection, slug}): `/next/preview?` and the
\* serialised parameters slug, collection, path = `${prefix}/${slug}`
generatePreviewPath(collection, slug) ==
    LET path == collectionPrefixMap(collection) \o <<"/">> \o slug
        pair(k, v) == FormEncode(k) \o <<"=">> \o FormEncode(v)
    IN  <<"/", "n", "e", "x", "t", "/", "p", "r", "e", "v", "i", "e", "w", "?">>
        \o pair(<<"s", "l", "u", "g">>, slug) \o <<"&">>
        \o pair(<<"c", "o", "l", "l", "e", "c", "t", "i", "o", "n">>, collection) \o <<"&">>
        \o pair(<<"p", "a", "t", "h">>, path)

\* position of the first ch in s, 0 when there is none
IndexOf(s, ch) ==
    IF \E k \in 1..Len(s) : s[k] = ch
    THEN CHOOSE k \in 1..Len(s) : s[k] = ch /\ \A j \in 1..(k - 1) : s[j] # ch
    ELSE 0

\* s.split(ch)
RECURSIVE Split(_, _)
Split(s, ch) ==
    LET k == IndexOf(s, ch) IN
    IF k = 0 THEN <<s>>
    ELSE <<SubSeq(s, 1, k - 1)>> \o Split(SubSeq(s, k + 1, Len(s)), ch)

\* the byte a %XX escape stands for
Unescaped(hi, lo) ==
    CASE hi = "2" /\ lo = "F" -> "/"
      [] hi = "3" /\ lo = "F" -> "?"
      [] hi = "2" /\ lo = "6" -> "&"
      [] hi = "3" /\ lo = "D" -> "="
      [] hi = "2" /\ lo = "B" -> "+"
      [] hi = "2" /\ lo = "5" -> "%"
      [] hi = "2" /\ lo = "3" -> "#"
      [] OTHER                -> "?"

\* the URLSearchParams parser on one name or value: '+' is a blank, %XX a
\* byte, a '%' without two digits after it stays
RECURSIVE FormDecode(_)
FormDecode(s) ==
    IF s = <<>> THEN <<>>
    ELSE IF Head(s) = "+" THEN <<" ">> \o FormDecode(Tail(s))
    ELSE IF Head(s) = "%" /\ Len(s) >= 3
         THEN <<Unescaped(s[2], s[3])>> \o FormDecode(SubSeq(s, 4, Len(s)))
    ELSE <<Head(s)>> \o FormDecode(Tail(s))

\* the pathname of a URL: up to the first '?' or '#'
Pathname(url) ==
    LET q == IndexOf(url, "?")
        h == IndexOf(url, "#")
        end == IF q = 0 /\ h = 0 THEN Len(url)
               ELSE IF q = 0 THEN h - 1
               ELSE IF h = 0 THEN q - 1
               ELSE (IF q < h THEN q ELSE h) - 1
    IN  SubSeq(url, 1, end)

\* the query of a URL: after the first '?', up to a '#'
Query(url) ==
    LET q == IndexOf(url, "?")
        rest == SubSeq(url, q + 1, Len(url))
        h == IndexOf(rest, "#")
    IN  IF q = 0 THEN <<>>
        ELSE IF h = 0 THEN rest ELSE SubSeq(rest, 1, h - 1)

\* new URL(req.url).searchParams.get(name): the decoded value of the first
\* name=value piece with that name, null when there is none
SearchParamsGet(url, name) ==
    LET pieces == Split(Query(url), "&")
        nameOf(p) == FormDecode(IF IndexOf(p, "=") = 0 THEN p
                                ELSE SubSeq(p, 1, IndexOf(p, "=") - 1))
        valueOf(p) == FormDecode(IF IndexOf(p, "=") = 0 THEN <<>>
                                 ELSE SubSeq(p, IndexOf(p, "=") + 1, Len(p)))
        hits == {k \in 1..Len(pieces) : pieces[k] # <<>> /\ nameOf(pieces[k]) = name}
    IN  IF hits = {} THEN NULL
        ELSE valueOf(pieces[CHOOSE k \in hits : \A j \in hits : k <= j])

\* the post whose preview link the editor opens
LinkedPost == "1"

\* an editor opens the preview link of the post: GET on the URL that
\* generatePreviewPath gives for its slug, with whatever cookie there is
OpenPreviewLink ==
    \E token \in Tokens, fault \in BOOLEAN :
       LET url == generatePreviewPath(PostsName, store.posts[LinkedPost].slug) IN
       /\ Pathname(url) = <<"/", "n", "e", "x", "t", "/", "p", "r", "e", "v", "i", "e", "w">>
       /\ PreviewHandler([route      |-> "preview",
                          path       |-> SearchParamsGet(url, <<"p", "a", "t", "h">>),
                          collection |-> SearchParamsGet(url, <<"c", "o", "l", "l", "e", "c", "t", "i", "o", "n">>),
                          slug       |-> SearchParamsGet(url, <<"s", "l", "u", "g">>),
                          token      |-> token],
                         fault)

\* app/(my-app)/posts/[slug]/page.tsx serves the pathnames /posts/<segment>,
\* one segment, a trailing slash dropped; params.slug is the segment
Routes(pathname) ==
    LET segments == Split(pathname, "/")
        n == IF Len(segments) > 2 /\ segments[Len(segments)] = <<>>
             THEN Len(segments) - 1 ELSE Len(segments)
    IN  /\ n = 3
        /\ segments[1] = <<>> /\ segments[2] = PostsName /\ segments[3] # <<>>

RouteSlug(pathname) == Split(pathname, "/")[3]

\* the browser follows the redirect of the preview route: the post page
\* renders when the location is one of its paths, else the app's not-found
FollowRedirect ==
    /\ pvReq.route = "preview" /\ pvResp.status = 307
    /\ LET pathname == Pathname(pvResp.location) IN
       IF Routes(pathname)
       THEN RenderPostPage(RouteSlug(pathname), pvResp.location)
       ELSE /\ pvReq' = [route |-> "no-route", path |-> pvResp.location,
                         collection |-> NULL, slug |-> NULL, token |-> NoToken]
            /\ pvResp' = [status |-> 404, body |-> "", location |-> NULL, logged |-> "",
                          before |-> draftMode, asked |-> "none"]
            /\ UNCHANGED draftMode
            /\ UNCHANGED avars /\ UNCHANGED qvars

LNext == OpenPreviewLink \/ FollowRedirect

\* the store holds a post with some slug; no request yet
InitLink ==
    /\ draftMode \in BOOLEAN
    /\ pvReq = NoPvRequest
    /\ pvResp = NoPvResponse
    /\ \E slug \in Slugs, st \in {"draft", "published"} :
         store = [InitialStore(st, 0) EXCEPT !.posts[LinkedPost].slug = slug]
    /\ log = <<>>
    /\ calls = <<>>
    /\ started = 0
    /\ route = "none"
    /\ sp = <<>>
    /\ qpc = "done"
    /\ findArgs = NoFind
    /\ findResult = NoFindOutcome
    /\ response = NoResponse

SpecLink == InitLink /\ [][LNext]_vars

(***************************************************************************)
(* Properties of the preview routes (checked under SpecPreview).           *)
(***************************************************************************)

\* C10 (as stated): every preview request without a token cookie is answered
\* with 403 and leaves the draft-mode flag disabled, whatever its other
\* query parameters and whatever the flag was before.
C10_NoTokenAlways403 ==
    (pvReq.route = "preview" /\ pvReq.token.kind = "none") =>
        pvResp.status = 403 /\ draftMode = FALSE

\* C10 (amended): every preview request that names a path and carries no
\* token cookie is answered with 403 and leaves the draft-mode flag disabled,
\* whatever its collection and slug and whatever the flag was before.
C10_NoTokenWithPath403 ==
    (pvReq.route = "preview" /\ pvReq.token.kind = "none" /\ Truthy(pvReq.path)) =>
        /\ pvResp.status = 403
        /\ pvResp.location = NULL
        /\ draftMode = FALSE

C10_Witness ==
    /\ pvReq.route = "preview" /\ pvReq.token.kind = "none"
    /\ Truthy(pvReq.path) /\ Truthy(pvReq.collection) /\ Truthy(pvReq.slug)
    /\ pvResp.before = TRUE
    /\ pvResp.status = 403 /\ draftMode = FALSE

\* a token cookie is there and is no unexpired JWT signed with the secret
FailsVerification(token) ==
    /\ token.kind \notin {"none", "empty"}
    /\ (token.kind # "jwt" \/ token.key # ServerSecret \/ token.expired)

\* an unexpired JWT signed with the secret that carries a user
TokenVerifies(token) ==
    /\ token.kind = "jwt" /\ token.key = ServerSecret /\ ~token.expired
    /\ token.payload # ""

HasPair(req) == Truthy(req.collection) /\ Truthy(req.slug)

\* the store holds a document of the named collection with the slug
HoldsDocument(req) ==
    /\ CollectionNamed(req.collection) # ""
    /\ DocsWithSlug(CollectionNamed(req.collection), req.slug) > 0

\* C11 (as stated): every preview request whose token fails verification is
\* answered with 403 and leaves the draft-mode flag disabled, whatever the
\* flag was before.
C11_BadTokenAlways403 ==
    (pvReq.route = "preview" /\ FailsVerification(pvReq.token)) =>
        pvResp.status = 403 /\ draftMode = FALSE

\* C11 (amended): every preview request that names a path and whose token
\* fails verification is answered with 403 and leaves the draft-mode flag
\* disabled, also when an earlier preview request had enabled it.
C11_BadTokenWithPath403 ==
    (pvReq.route = "preview" /\ FailsVerification(pvReq.token) /\ Truthy(pvReq.path)) =>
        /\ pvResp.status = 403
        /\ pvResp.body = Forbidden
        /\ pvResp.location = NULL
        /\ draftMode = FALSE

C11_Witness ==
    /\ pvReq.route = "preview" /\ Truthy(pvReq.path)
    /\ pvReq.token.kind = "jwt" /\ pvReq.token.key # ServerSecret
    /\ pvResp.before = TRUE
    /\ pvResp.status = 403 /\ draftMode = FALSE

\* C12: a preview request with a valid token and a collection/slug pair for
\* which the store holds no document is answered with 404 and leaves the
\* draft-mode flag as it was.
C12_AbsentDocument404 ==
    (pvReq.route = "preview" /\ TokenVerifies(pvReq.token) /\ HasPair(pvReq)
       /\ ~HoldsDocument(pvReq)) =>
        /\ pvResp.status = 404
        /\ draftMode = pvResp.before

\* C13: a preview request with a path, a token that verifies, and either no
\* collection/slug pair or a pair the store holds a document for, enables
\* the draft-mode flag and redirects to the path.
C13_ValidPreviewEnablesAndRedirects ==
    (pvReq.route = "preview" /\ Truthy(pvReq.path) /\ TokenVerifies(pvReq.token)
       /\ (~HasPair(pvReq) \/ HoldsDocument(pvReq))) =>
        /\ draftMode = TRUE
        /\ pvResp.status = 307
        /\ pvResp.location = pvReq.path

C13_Witness ==
    /\ pvReq.route = "preview" /\ TokenVerifies(pvReq.token)
    /\ pvReq.collection = PostsName /\ pvReq.slug = <<"a">>
    /\ pvReq.path = <<"/", "p", "/", "a">>
    /\ pvResp.before = FALSE /\ pvResp.logged = ""
    /\ draftMode = TRUE /\ pvResp.location = pvReq.path

\* C14: the draft-mode flag is switched on only by a preview request with a
\* path whose token verified and that gave no collection/slug pair or whose
\* lookup returned a matching document; a failed lookup never enables it.
C14_EnabledOnlyByVerifiedPreview ==
    (draftMode = TRUE /\ pvResp.before = FALSE) =>
        /\ pvReq.route = "preview"
        /\ Truthy(pvReq.path)
        /\ TokenVerifies(pvReq.token)
        /\ \/ ~HasPair(pvReq)
           \/ HoldsDocument(pvReq) /\ pvResp.logged = ""

C16_RedirectTargetIsPath ==
    pvResp.status = 307 =>
        IF pvReq.route = "preview"
        THEN Truthy(pvReq.path) /\ pvResp.location = pvReq.path
        ELSE pvResp.location = IF pvReq.path = NULL \/ pvReq.path = <<>>
                               THEN <<"/">> ELSE pvReq.path

C16_Witness ==
    /\ pvReq.route = "preview"
    /\ pvReq.path = <<"h", "t", "t", "p", "s", ":", "/", "/", "e", "v", "i", "l">>
    /\ pvResp.status = 307 /\ pvResp.location = pvReq.path

\* C17: after an exit-draft request the draft-mode flag is disabled and the
\* response is a redirect, whatever the flag was and whatever token cookie
\* the request carried.
C17_ExitDraftDisables ==
    pvReq.route = "exit-draft" =>
        /\ draftMode = FALSE
        /\ pvResp.status = 307
        /\ pvResp.location # NULL

C17_Witness ==
    /\ pvReq.route = "exit-draft" /\ pvReq.token.kind = "none"
    /\ pvResp.before = TRUE
    /\ draftMode = FALSE /\ pvResp.status = 307

(***************************************************************************)
(* Properties of single requests and invocations (checked under            *)
(* SpecHandlers).                                                          *)
(***************************************************************************)

\* C21: GET /api/examples/posts/{id} and GET /api/examples/products/{id}
\* answer a request for an id without a document with 404 and a failure
\* envelope, not with 500 and not with success.
C21_MissingIdAnswered404 ==
    \A c \in Calls :
        (calls[c].op \in GetByIdOps /\ calls[c].pc = "done"
           /\ ~Exists(CollectionOf(calls[c].op), calls[c].id)) =>
            response.status = 404 /\ ~response.success

RouteOps == CreateRouteOps \cup ByIdOps

\* a store call of the invocation threw
StoreCallFailed(c) == \E k \in 1..Len(calls[c].ops) : calls[c].ops[k] = "threw"

\* error.message || fallback
SurfacedError(message, fallback) == IF message # "" THEN message ELSE fallback

\* C22: when a store call of a route handler or a mutation action fails,
\* the handler still returns: an envelope with success = false (status 500
\* for a route) whose error is the thrown message, or the operation's
\* fallback text when the message is empty.
C22_StoreFailureIsEnveloped ==
    /\ \A c \in Calls :
         StoreCallFailed(c) =>
            LET expected == SurfacedError(calls[c].outcome.thrown, FallbackError(calls[c].op))
            IN  /\ calls[c].pc = "done" /\ calls[c].outcome.returned
                /\ ~calls[c].outcome.success
                /\ calls[c].outcome.error = expected /\ expected # ""
                /\ calls[c].op \in RouteOps =>
                      /\ response.status = 500 /\ ~response.success
                      /\ response.error = expected
    /\ findResult.threw =>
         /\ qpc = "done"
         /\ response.status = 500 /\ ~response.success
         /\ response.error = SurfacedError(findResult.message,
                                           IF route = "posts" THEN "Failed to fetch posts"
                                           ELSE "Failed to fetch products")

C22_Witness ==
    \E c \in Calls :
        /\ calls[c].op = "PATCH /api/examples/posts/[id]" /\ calls[c].id = "1"
        /\ StoreCallFailed(c) /\ calls[c].outcome.thrown = ""
        /\ response.status = 500 /\ response.error = "Failed to update post"

\* r is a finished GET by id of the record that create c returned, and no
\* write of that record was committed between the create and the read
ReadsCreated(c, r) ==
    /\ calls[c].op \in CreateOps /\ calls[c].pc = "done" /\ calls[c].outcome.success
    /\ calls[r].op \in GetByIdOps /\ calls[r].pc = "done" /\ calls[r].outcome.success
    /\ CollectionOf(calls[r].op) = CollectionOf(calls[c].op)
    /\ calls[r].id = calls[c].id
    /\ CommitsOn(CollectionOf(calls[c].op), calls[c].id,
                 calls[c].wrote[1] + 1, calls[r].seen) = {}

C24_PageAsksForFlagValue ==
    [][ pvReq'.route = "post-page" =>
          /\ pvResp'.asked = IF draftMode THEN "draft" ELSE "published"
          /\ draftMode' = draftMode
          /\ (pvReq.route = "preview" /\ pvResp.status = 307) => pvResp'.asked = "draft"
          /\ \/ pvReq.route = "exit-draft"
             \/ pvReq.route = "preview" /\ pvResp.status = 403
             => pvResp'.asked = "published"
          /\ (\A id \in DOMAIN store.posts : store.posts[id].slug # pvReq'.slug)
             => pvResp'.status = 404
      ]_vars

C24_Witness ==
    /\ pvReq.route = "post-page" /\ pvReq.slug = <<"a">>
    /\ draftMode = TRUE
    /\ pvResp.asked = "draft" /\ pvResp.status = 200

(***************************************************************************)
(* Further properties of the server actions.                               *)
(***************************************************************************)

\* the log positions of the writes togglePostStatus invocations committed
StatusToggleWrites ==
    {j \in 1..Len(log) : calls[log[j].call].op = "togglePostStatus"}

\* togglePostStatus writes publishedDate only together with status
\* 'published' and only when the record it read had none
DateOnlyOnFirstPublish ==
    \A j \in StatusToggleWrites :
        "publishedDate" \in DOMAIN log[j].data =>
            /\ log[j].data.status = "published"
            /\ calls[log[j].call].doc.publishedDate = 0

C26_InventoryKeepsStockFlag ==
    \A c \in Calls :
        (calls[c].op = "updateProductInventory" /\ calls[c].pc = "done") =>
            LET n == calls[c].updates.inventory IN
            IF n < 0
            THEN /\ calls[c].outcome.returned /\ ~calls[c].outcome.success
                 /\ calls[c].outcome.error = "Inventory cannot be negative"
                 /\ calls[c].ops = <<>> /\ CommitsOf(c) = {}
            ELSE /\ Len(calls[c].ops) = 1
                 /\ CommitsOf(c) = {calls[c].wrote[k] : k \in 1..Len(calls[c].wrote)}
                 /\ calls[c].outcome.success <=> Len(calls[c].wrote) = 1
                 /\ calls[c].outcome.success =>
                      LET w == log[calls[c].wrote[1]] IN
                      /\ w.kind = "update" /\ w.coll = "products" /\ w.id = calls[c].id
                      /\ w.data = [inventory |-> n, inStock |-> n > 0]
                      /\ w.after.inventory = n
                      /\ w.after.inStock <=> w.after.inventory > 0
                      /\ \A f \in DOMAIN w.before \ {"inventory", "inStock"} :
                           w.after[f] = w.before[f]

C26_Witness ==
    \E c \in Calls, d \in Calls :
        /\ calls[c].op = "updateProductInventory" /\ calls[c].updates.inventory = 0
        /\ calls[c].outcome.success
        /\ log[calls[c].wrote[1]].before.inStock = TRUE
        /\ log[calls[c].wrote[1]].after.inStock = FALSE
        /\ calls[d].op = "updateProductInventory" /\ calls[d].updates.inventory = -1
        /\ calls[d].pc = "done" /\ ~calls[d].outcome.success

\* the commits made by the toggle actions
ToggleCommits == {j \in 1..Len(log) : calls[log[j].call].op \in ToggleOps}

\* the fields a toggle may hand to the store
ToggleWrites(op) ==
    IF op = "togglePostStatus" THEN {"status", "publishedDate"} ELSE {ToggleField(op)}

\* C27: a toggle hands the store only the field it toggles (togglePostStatus
\* also publishedDate, and only when the post it read had none), the write
\* leaves every other field of the record as it was, and of two toggles of
\* different fields on one record that overlap, the later write keeps what
\* the earlier one wrote.
C27_ToggleWritesOnlyItsField ==
    /\ \A j \in ToggleCommits :
         LET op == calls[log[j].call].op
             read == calls[log[j].call].doc IN
         /\ ToggleField(op) \in DOMAIN log[j].data
         /\ DOMAIN log[j].data \subseteq ToggleWrites(op)
         /\ "publishedDate" \in DOMAIN log[j].data =>
              (log[j].data.status = "published" /\ read.publishedDate = 0)
         /\ log[j].data[ToggleField(op)] =
              (IF op = "togglePostStatus" THEN NewStatus(read.status)
               ELSE ~read[ToggleField(op)])
         /\ \A f \in DOMAIN log[j].before :
              log[j].after[f] = (IF f \in DOMAIN log[j].data THEN log[j].data[f]
                                 ELSE log[j].before[f])
    /\ \A i \in ToggleCommits, j \in ToggleCommits :
         ( /\ i < j /\ log[i].coll = log[j].coll /\ log[i].id = log[j].id
           /\ ToggleField(calls[log[i].call].op) # ToggleField(calls[log[j].call].op)
           /\ calls[log[j].call].seen < i
           /\ CommitsOn(log[i].coll, log[i].id, i + 1, j - 1) = {} )
         => LET fi == ToggleField(calls[log[i].call].op)
                fj == ToggleField(calls[log[j].call].op) IN
            /\ log[j].after[fi] = log[i].data[fi]
            /\ log[j].after[fj] = log[j].data[fj]

\* togglePostFeatured read post 1 before togglePostStatus wrote it and wrote
\* after it: both the new status and the new featured flag are in the record
C27_Witness ==
    \E i \in ToggleCommits, j \in ToggleCommits :
        /\ i < j /\ log[i].coll = "posts" /\ log[j].coll = "posts"
        /\ log[i].id = log[j].id
        /\ calls[log[i].call].op = "togglePostStatus"
        /\ calls[log[j].call].op = "togglePostFeatured"
        /\ calls[log[j].call].seen < i
        /\ log[j].after.status = log[i].data.status
        /\ log[j].after.status # calls[log[j].call].doc.status
        /\ log[j].after.featured = ~calls[log[j].call].doc.featured

\* C28: a preview request without a path parameter (absent or empty) is
\* answered 404 'No path provided' whatever its token cookie is -- absent,
\* empty, malformed, forged, expired or valid -- with nothing logged about
\* the token, no redirect, and the draft-mode flag as it was before.
C28_NoPathIs404BeforeToken ==
    (pvReq.route = "preview" /\ ~Truthy(pvReq.path)) =>
        /\ pvResp.status = 404
        /\ pvResp.body = "No path provided"
        /\ pvResp.location = NULL
        /\ pvResp.logged = ""
        /\ draftMode = pvResp.before

\* draft mode was on, and a pathless request with a token that would have
\* been refused (and have switched the flag off) got the 404
C28_Witness ==
    /\ pvReq.route = "preview" /\ pvReq.path = NULL
    /\ pvReq.token.kind = "jwt" /\ VerifyThrows(pvReq.token, ServerSecret)
    /\ pvResp.before = TRUE
    /\ pvResp.status = 404 /\ draftMode = TRUE

\* the renders of the examples page that returned their JSX
Rendered == {c \in Calls : calls[c].op = PageOp /\ calls[c].pc = "done"}

\* C29: the Drafts statistic a render of the examples page shows, its total
\* post count minus its published post count, is never negative.
C29_DraftsNeverNegative ==
    \A c \in Rendered : calls[c].doc.drafts >= 0

\* the slug of the post the link was generated for, and its page's path
LinkedSlug == store.posts[LinkedPost].slug
LinkedPath == collectionPrefixMap(PostsName) \o <<"/">> \o LinkedSlug

\* C30: for every slug, the preview route given the generated URL with a
\* valid token and the post in the store receives slug, collection and
\* path = '/posts/<slug>', finds the post by exactly that collection and
\* slug, and redirects to '/posts/<slug>'; and that location is a path on
\* which the post page serves that slug.
C30_PreviewLinkReachesItsPost ==
    /\ (pvReq.route = "preview" /\ TokenVerifies(pvReq.token)) =>
          /\ pvReq.collection = PostsName
          /\ pvReq.slug = LinkedSlug
          /\ pvReq.path = LinkedPath
          /\ PreviewBranch(pvReq, pvResp.logged # "") \in {"found", "lookup-failed"}
          /\ pvResp.status = 307
          /\ pvResp.location = LinkedPath
    /\ pvReq.route \in {"post-page", "no-route"} =>
          /\ pvReq.route = "post-page"
          /\ pvReq.path = LinkedPath
          /\ pvReq.slug = LinkedSlug

====
